---- MODULE Spec2Model ----
(***************************************************************************)
(* A model of the real-time synchronisation client of lightcone-sdk        *)
(* (python/src/websocket): the three local replicas (LocalOrderbook,       *)
(* PriceHistory, UserState), the MessageHandler that routes inbound frames *)
(* to them, the SubscriptionManager, and the receive loop / reconnect      *)
(* state machine of LightconeWebSocketClient.                              *)
(*                                                                         *)
(* Each part has its own specification over its own variables:             *)
(*   SpecBook      one LocalOrderbook under snapshots, deltas and clear    *)
(***************************************************************************)
EXTENDS Integers, Sequences, FiniteSets, TLC

(***************************************************************************)
(* Bounds of the model.                                                    *)
(***************************************************************************)
\* the largest sequence number an inbound book_update carries
MaxSeq == 2

None == "None"

(***************************************************************************)
(* Decimal strings.  The protocol carries prices and sizes as decimal      *)
(* strings; the code compares them with float(...).  A string is modelled  *)
(* by its characters and float() by a decimal parser, so two spellings of  *)
(* one number ("1.0", "1.00") are different dict keys with equal floats.   *)
(* Values are held exactly, in hundredths; every string of the domains     *)
(* below has at most two fractional digits, so float() is exact on them.   *)
(***************************************************************************)
Spelling ==
    [s \in {"0", "0.0", "0.00", "0.000000", "5", "7", "1.0", "1.00", "2", "3", "x"} |->
        CASE s = "0"        -> <<"0">>
          [] s = "0.0"      -> <<"0", ".", "0">>
          [] s = "0.00"     -> <<"0", ".", "0", "0">>
          [] s = "0.000000" -> <<"0", ".", "0", "0", "0", "0", "0", "0">>
          [] s = "5"        -> <<"5">>
          [] s = "7"        -> <<"7">>
          [] s = "1.0"      -> <<"1", ".", "0">>
          [] s = "1.00"     -> <<"1", ".", "0", "0">>
          [] s = "2"        -> <<"2">>
          [] s = "3"        -> <<"3">>
          [] s = "x"        -> <<"x">>]

DigitChars == {"0", "1", "2", "3", "4", "5", "6", "7", "8", "9"}

DigitValue(c) ==
    CASE c = "0" -> 0 [] c = "1" -> 1 [] c = "2" -> 2 [] c = "3" -> 3
      [] c = "4" -> 4 [] c = "5" -> 5 [] c = "6" -> 6 [] c = "7" -> 7
      [] c = "8" -> 8 [] c = "9" -> 9

RECURSIVE DigitsValue(_)
\* the number a run of decimal digits denotes
DigitsValue(cs) ==
    IF cs = <<>> THEN 0
    ELSE 10 * DigitsValue(SubSeq(cs, 1, Len(cs) - 1)) + DigitValue(cs[Len(cs)])

\* float(s): [ok |-> TRUE, v |-> the value in hundredths], or ok = FALSE when
\* float() raises ValueError because s is not a decimal number
ParseFloat(s) ==
    LET cs   == Spelling[s]
        dots == {i \in 1..Len(cs) : cs[i] = "."}
        ok   == /\ cs # <<>>
                /\ \A i \in 1..Len(cs) : cs[i] \in DigitChars \cup {"."}
                /\ Cardinality(dots) <= 1
                /\ Len(cs) > Cardinality(dots)
    IN  IF ~ok THEN [ok |-> FALSE, v |-> 0]
        ELSE IF dots = {} THEN [ok |-> TRUE, v |-> 100 * DigitsValue(cs)]
        ELSE LET d    == CHOOSE i \in dots : TRUE
                 ip   == SubSeq(cs, 1, d - 1)
                 fp   == SubSeq(cs, d + 1, Len(cs))
                 frac == IF Len(fp) = 0 THEN 0
                         ELSE IF Len(fp) = 1 THEN 10 * DigitsValue(fp)
                         ELSE DigitsValue(SubSeq(fp, 1, 2))
             IN  [ok |-> TRUE, v |-> 100 * DigitsValue(ip) + frac]

\* float() of every string of the model, computed once
Float == [s \in DOMAIN Spelling |-> ParseFloat(s)]

\* is_zero_size (state/orderbook.py): a literal test, then float(size) == 0.0,
\* and False when float() raises
is_zero_size(size) ==
    IF size \in {"0", "0.0", "0.000000"} THEN TRUE
    ELSE IF ~Float[size].ok THEN FALSE
    ELSE Float[size].v = 0

(***************************************************************************)
(* Python dicts keep insertion order: a dict is a sequence of              *)
(* [key, value] records without repeated keys.                             *)
(***************************************************************************)
DictKeys(d) == {d[i].key : i \in 1..Len(d)}

DictHas(d, k) == \E i \in 1..Len(d) : d[i].key = k

\* d.get(k)
DictGet(d, k) ==
    IF DictHas(d, k) THEN d[CHOOSE i \in 1..Len(d) : d[i].key = k].value ELSE None

\* d[k] = v: an existing key keeps its position, a new key goes last
DictSet(d, k, v) ==
    IF DictHas(d, k)
    THEN [i \in 1..Len(d) |-> IF d[i].key = k THEN [key |-> k, value |-> v] ELSE d[i]]
    ELSE Append(d, [key |-> k, value |-> v])

\* d.pop(k, None)
DictPop(d, k) == SelectSeq(d, LAMBDA e : e.key # k)

(***************************************************************************)
(* LocalOrderbook (state/orderbook.py).                                    *)
(***************************************************************************)
\* LocalOrderbook.__init__
NewOrderbook(orderbook_id) ==
    [orderbook_id   |-> orderbook_id,
     bids           |-> <<>>,
     asks           |-> <<>>,
     expected_seq   |-> 0,
     has_snapshot   |-> FALSE,
     last_timestamp |-> None]

RECURSIVE InsertNonZero(_, _)
\* the loops of apply_snapshot: every level whose size is not zero is stored,
\* a zero level is skipped
InsertNonZero(d, levels) ==
    IF levels = <<>> THEN d
    ELSE LET l == Head(levels)
         IN  InsertNonZero(IF is_zero_size(l.size) THEN d ELSE DictSet(d, l.price, l.size),
                           Tail(levels))

RECURSIVE UpsertOrRemove_skips_zero(_, _)
\* the loops of apply_delta written like those of apply_snapshot: a zero
\* level is skipped, so its price keeps the size it had
UpsertOrRemove_skips_zero(d, levels) ==
    IF levels = <<>> THEN d
    ELSE LET l == Head(levels)
         IN  UpsertOrRemove_skips_zero(IF is_zero_size(l.size) THEN d
                                       ELSE DictSet(d, l.price, l.size),
                                       Tail(levels))

RECURSIVE UpsertOrRemove(_, _)
\* the loops of apply_delta: a zero level pops its price, any other level is
\* stored under its price
UpsertOrRemove(d, levels) ==
    IF levels = <<>> THEN d
    ELSE LET l == Head(levels)
         IN  UpsertOrRemove(IF is_zero_size(l.size) THEN DictPop(d, l.price)
                            ELSE DictSet(d, l.price, l.size),
                            Tail(levels))

\* apply_snapshot without the two clear() calls: the snapshot is merged into
\* the levels already held
apply_snapshot_keeps_old(b, update) ==
    [b EXCEPT !.bids           = InsertNonZero(b.bids, update.bids),
              !.asks           = InsertNonZero(b.asks, update.asks),
              !.expected_seq   = update.seq + 1,
              !.has_snapshot   = TRUE,
              !.last_timestamp = update.timestamp]

\* LocalOrderbook.apply_snapshot
apply_snapshot(b, update) ==
    [b EXCEPT !.bids           = InsertNonZero(<<>>, update.bids),
              !.asks           = InsertNonZero(<<>>, update.asks),
              !.expected_seq   = update.seq + 1,
              !.has_snapshot   = TRUE,
              !.last_timestamp = update.timestamp]

\* SequenceGapError(expected, received)
SequenceGapError(expected, received) ==
    [type |-> "SequenceGapError", expected |-> expected, received |-> received]

NoError == [type |-> "None", expected |-> 0, received |-> 0]

\* apply_delta with the sequence check after the bid loop: a rejected delta
\* has already changed the bids
apply_delta_checks_late(b, update) ==
    IF update.seq # b.expected_seq
    THEN [book   |-> [b EXCEPT !.bids = UpsertOrRemove(b.bids, update.bids)],
          raised |-> SequenceGapError(b.expected_seq, update.seq)]
    ELSE [book   |-> [b EXCEPT !.bids           = UpsertOrRemove(b.bids, update.bids),
                               !.asks           = UpsertOrRemove(b.asks, update.asks),
                               !.expected_seq   = update.seq + 1,
                               !.last_timestamp = update.timestamp],
          raised |-> NoError]

\* LocalOrderbook.apply_delta: the book afterwards and the exception raised
apply_delta(b, update) ==
    IF update.seq # b.expected_seq
    THEN [book |-> b, raised |-> SequenceGapError(b.expected_seq, update.seq)]
    ELSE [book   |-> [b EXCEPT !.bids           = UpsertOrRemove(b.bids, update.bids),
                               !.asks           = UpsertOrRemove(b.asks, update.asks),
                               !.expected_seq   = update.seq + 1,
                               !.last_timestamp = update.timestamp],
          raised |-> NoError]

\* LocalOrderbook.apply_update
apply_update(b, update) ==
    IF update.is_snapshot
    THEN [book |-> apply_snapshot(b, update), raised |-> NoError]
    ELSE apply_delta(b, update)

\* LocalOrderbook.clear
clear(b) ==
    [b EXCEPT !.bids           = <<>>,
              !.asks           = <<>>,
              !.expected_seq   = 0,
              !.has_snapshot   = FALSE,
              !.last_timestamp = None]

\* the order of the sort key: float(p) before float(q), descending when
\* reverse=True
FloatBefore(p, q, reverse) ==
    IF reverse THEN Float[p].v > Float[q].v ELSE Float[p].v < Float[q].v

RECURSIVE InsertSorted(_, _, _)
\* one step of a stable sort of prices by float(): p, later in the dict than
\* every price of sorted, goes after the prices it does not sort before
InsertSorted(sorted, p, reverse) ==
    IF sorted = <<>> THEN <<p>>
    ELSE IF FloatBefore(p, Head(sorted), reverse) THEN <<p>> \o sorted
    ELSE <<Head(sorted)>> \o InsertSorted(Tail(sorted), p, reverse)

RECURSIVE SortedKeys(_, _)
\* sorted(d.keys(), key=float, reverse=...): stable, so equal floats keep
\* their dict order
SortedKeys(d, reverse) ==
    IF d = <<>> THEN <<>>
    ELSE InsertSorted(SortedKeys(SubSeq(d, 1, Len(d) - 1), reverse), d[Len(d)].key, reverse)

\* LocalOrderbook.get_bids: price descending
get_bids(b) ==
    LET ks == SortedKeys(b.bids, TRUE)
    IN  [i \in 1..Len(ks) |-> [side |-> "bid", price |-> ks[i], size |-> DictGet(b.bids, ks[i])]]

\* LocalOrderbook.get_asks: price ascending
get_asks(b) ==
    LET ks == SortedKeys(b.asks, FALSE)
    IN  [i \in 1..Len(ks) |-> [side |-> "ask", price |-> ks[i], size |-> DictGet(b.asks, ks[i])]]

Take(s, n) == SubSeq(s, 1, IF n < Len(s) THEN n ELSE Len(s))

\* LocalOrderbook.get_top_bids / get_top_asks
get_top_bids(b, n) == Take(get_bids(b), n)

get_top_asks(b, n) == Take(get_asks(b), n)

\* LocalOrderbook.best_bid: max(keys, key=float) is the first key of the
\* largest float; None on an empty side
best_bid(b) ==
    IF b.bids = <<>> THEN None
    ELSE LET i == CHOOSE i \in 1..Len(b.bids) :
                    /\ \A j \in 1..Len(b.bids) : Float[b.bids[j].key].v <= Float[b.bids[i].key].v
                    /\ \A j \in 1..(i - 1) : Float[b.bids[j].key].v < Float[b.bids[i].key].v
         IN  <<b.bids[i].key, b.bids[i].value>>

\* LocalOrderbook.best_ask: min(keys, key=float), the first key of the
\* smallest float
best_ask(b) ==
    IF b.asks = <<>> THEN None
    ELSE LET i == CHOOSE i \in 1..Len(b.asks) :
                    /\ \A j \in 1..Len(b.asks) : Float[b.asks[j].key].v >= Float[b.asks[i].key].v
                    /\ \A j \in 1..(i - 1) : Float[b.asks[j].key].v > Float[b.asks[i].key].v
         IN  <<b.asks[i].key, b.asks[i].value>>

\* LocalOrderbook.bid_size_at / ask_size_at
bid_size_at(b, price) == DictGet(b.bids, price)

ask_size_at(b, price) == DictGet(b.asks, price)

(***************************************************************************)
(* PriceHistory (state/price.py).  An Optional[int] is <<>> for None and   *)
(* <<n>> for n.  _candles is a sequence (Python index i is position i+1),  *)
(* _candle_index a function from timestamps to Python indices.             *)
(***************************************************************************)
\* the cap of _update_or_append_candle, `while len(self._candles) > 1000`,
\* scaled down so that a handful of candles reaches it
MaxCandles == 2

Nil == <<>>

Some(n) == <<n>>

EmptyIndex == [t \in {} |-> 0]

\* PriceHistory.__init__
NewPriceHistory(orderbook_id, resolution, include_ohlcv) ==
    [orderbook_id   |-> orderbook_id,
     resolution     |-> resolution,
     include_ohlcv  |-> include_ohlcv,
     candles        |-> <<>>,
     candle_index   |-> EmptyIndex,
     last_timestamp |-> Nil,
     server_time    |-> Nil,
     has_snapshot   |-> FALSE]

\* d[k] = v on a dict held as a function
IndexSet(index, k, v) == [t \in DOMAIN index \cup {k} |-> IF t = k THEN v ELSE index[t]]

\* d.pop(k, None) on a dict held as a function
IndexPop(index, k) == [t \in DOMAIN index \ {k} |-> index[t]]

RECURSIVE SnapshotIndex(_, _, _)
\* the loop of PriceHistory.apply_snapshot: candle number i of the list gets
\* index i, a repeated timestamp keeps the later index
SnapshotIndex(index, prices, i) ==
    IF i > Len(prices) THEN index
    ELSE SnapshotIndex(IndexSet(index, prices[i].t, i - 1), prices, i + 1)

\* PriceHistory.apply_snapshot: the list is taken as it comes
ph_apply_snapshot(h, data) ==
    [h EXCEPT !.candles        = data.prices,
              !.candle_index   = SnapshotIndex(EmptyIndex, data.prices, 1),
              !.last_timestamp = data.last_timestamp,
              !.server_time    = data.server_time,
              !.has_snapshot   = TRUE,
              !.include_ohlcv  = IF data.include_ohlcv # Nil THEN data.include_ohlcv[1]
                                 ELSE h.include_ohlcv]

\* the for/else of _update_or_append_candle: the Python index of the first
\* candle older than t, len(candles) when there is none
InsertPos(candles, t) ==
    LET older == {i \in 1..Len(candles) : candles[i].t < t}
    IN  IF older = {} THEN Len(candles)
        ELSE (CHOOSE i \in older : \A j \in older : i <= j) - 1

RECURSIVE TrimCandles_keeps_index(_, _)
\* the trimming loop without index.pop: evicted timestamps stay in the index
TrimCandles_keeps_index(candles, index) ==
    IF Len(candles) <= MaxCandles THEN [candles |-> candles, index |-> index]
    ELSE TrimCandles_keeps_index(SubSeq(candles, 1, Len(candles) - 1), index)

RECURSIVE TrimCandles(_, _)
\* while len(candles) > 1000: removed = candles.pop(); index.pop(removed.t, None)
TrimCandles(candles, index) ==
    IF Len(candles) <= MaxCandles THEN [candles |-> candles, index |-> index]
    ELSE TrimCandles(SubSeq(candles, 1, Len(candles) - 1),
                     IndexPop(index, candles[Len(candles)].t))

\* list.insert(pos, x), pos a Python index
ListInsert(l, pos, x) == SubSeq(l, 1, pos) \o <<x>> \o SubSeq(l, pos + 1, Len(l))

\* PriceHistory._update_or_append_candle
update_or_append_candle(h, candle) ==
    LET stored ==
          IF candle.t \in DOMAIN h.candle_index
          THEN [candles |-> [h.candles EXCEPT ![h.candle_index[candle.t] + 1] = candle],
                index   |-> h.candle_index]
          ELSE LET pos     == InsertPos(h.candles, candle.t)
                   shifted == [t \in DOMAIN h.candle_index |->
                                  IF h.candle_index[t] >= pos THEN h.candle_index[t] + 1
                                  ELSE h.candle_index[t]]
               IN  TrimCandles(ListInsert(h.candles, pos, candle),
                               IndexSet(shifted, candle.t, pos))
    IN  [h EXCEPT !.candles        = stored.candles,
                  !.candle_index   = stored.index,
                  !.last_timestamp = IF stored.candles # <<>> THEN Some(stored.candles[1].t)
                                     ELSE h.last_timestamp]

\* PriceHistoryData.to_candle and PriceHistory.apply_update: an update
\* without t carries no candle and changes nothing
ph_apply_update(h, data) ==
    IF "t" \in DOMAIN data THEN update_or_append_candle(h, [t |-> data.t, m |-> data.m])
    ELSE h

\* PriceHistory.apply_heartbeat
ph_apply_heartbeat(h, data) == [h EXCEPT !.server_time = data.server_time]

\* PriceHistory.apply_event
ph_apply_event(h, data) ==
    IF data.event_type = "snapshot" THEN ph_apply_snapshot(h, data)
    ELSE IF data.event_type = "update" THEN ph_apply_update(h, data)
    ELSE IF data.event_type = "heartbeat" THEN ph_apply_heartbeat(h, data)
    ELSE h

\* PriceHistory.clear
ph_clear(h) ==
    [h EXCEPT !.candles        = <<>>,
              !.candle_index   = EmptyIndex,
              !.last_timestamp = Nil,
              !.server_time    = Nil,
              !.has_snapshot   = FALSE]

(***************************************************************************)
(* UserState (state/user.py).  _orders and _balances are dicts; a balance  *)
(* key is the string "<market>:<deposit mint>", held by its characters so  *)
(* that str.startswith is computed and not assumed.                        *)
(***************************************************************************)
\* Decimal(s) == 0, False on InvalidOperation: Decimal reads the digits
\* exactly, so the test is on the exact value
is_zero(s) ==
    LET cs     == Spelling[s]
        dots   == {i \in 1..Len(cs) : cs[i] = "."}
        digits == SelectSeq(cs, LAMBDA c : c # ".")
        valid  == /\ \A i \in 1..Len(cs) : cs[i] \in DigitChars \cup {"."}
                  /\ Cardinality(dots) <= 1
                  /\ digits # <<>>
    IN  valid /\ \A i \in 1..Len(digits) : digits[i] = "0"

\* truth value of an Optional[str]: None and "" are false
Truthy(x) == x \notin {None, ""}

NameChars ==
    [n \in {"", "mk", "mk1", "usdc"} |->
        CASE n = ""     -> <<>>
          [] n = "mk"   -> <<"m", "k">>
          [] n = "mk1"  -> <<"m", "k", "1">>
          [] n = "usdc" -> <<"u", "s", "d", "c">>]

\* f"{market_pubkey}:{deposit_mint}"
BalanceKey(market_pubkey, deposit_mint) ==
    NameChars[market_pubkey] \o <<":">> \o NameChars[deposit_mint]

\* key.startswith(prefix)
StartsWith(key, prefix) ==
    /\ Len(NameChars[prefix]) <= Len(key)
    /\ SubSeq(key, 1, Len(NameChars[prefix])) = NameChars[prefix]

\* UserState.__init__
NewUserState(user) ==
    [user           |-> user,
     orders         |-> <<>>,
     balances       |-> <<>>,
     has_snapshot   |-> FALSE,
     last_timestamp |-> None]

RECURSIVE OrdersByHash(_, _)
\* for order in data.orders: self._orders[order.order_hash] = order
OrdersByHash(d, orders) ==
    IF orders = <<>> THEN d
    ELSE OrdersByHash(DictSet(d, Head(orders).order_hash, Head(orders)), Tail(orders))

\* UserState.apply_snapshot
user_apply_snapshot(u, data) ==
    [u EXCEPT !.orders         = OrdersByHash(<<>>, data.orders),
              !.balances       = data.balances,
              !.has_snapshot   = TRUE,
              !.last_timestamp = data.timestamp]

\* BalanceEntry(market_pubkey, deposit_mint, outcomes)
BalanceEntry(market_pubkey, deposit_mint, outcomes) ==
    [market_pubkey |-> market_pubkey, deposit_mint |-> deposit_mint, outcomes |-> outcomes]

\* UserState._apply_balance_from_order
apply_balance_from_order(balances, data, balance) ==
    IF Truthy(data.market_pubkey) /\ Truthy(data.deposit_mint)
    THEN DictSet(balances, BalanceKey(data.market_pubkey, data.deposit_mint),
                 BalanceEntry(data.market_pubkey, data.deposit_mint, balance.outcomes))
    ELSE IF Truthy(data.market_pubkey)
    THEN LET hits == {i \in 1..Len(balances) : StartsWith(balances[i].key, data.market_pubkey)}
         IN  IF hits = {} THEN balances
             ELSE LET first == CHOOSE i \in hits : \A j \in hits : i <= j
                  IN  [balances EXCEPT ![first].value.outcomes = balance.outcomes]
    ELSE balances

\* the Order built by apply_order_update for a hash it does not hold
OrderFromUpdate(data) ==
    [order_hash    |-> data.order[1].order_hash,
     market_pubkey |-> data.market_pubkey,
     orderbook_id  |-> data.orderbook_id,
     side          |-> data.order[1].side,
     maker_amount  |-> data.order[1].remaining,
     taker_amount  |-> "0",
     remaining     |-> data.order[1].remaining,
     filled        |-> data.order[1].filled,
     price         |-> data.order[1].price,
     created_at    |-> data.order[1].created_at,
     expiration    |-> 0]

\* apply_order_update with the context test of the new-order branch left out
apply_order_update_without_context(u, data) ==
    IF data.order = Nil THEN u
    ELSE LET update == data.order[1]
             orders ==
               IF is_zero(update.remaining) THEN DictPop(u.orders, update.order_hash)
               ELSE DictSet(u.orders, update.order_hash, OrderFromUpdate(data))
         IN  [u EXCEPT !.orders = orders, !.last_timestamp = data.timestamp]

\* UserState.apply_order_update
apply_order_update(u, data) ==
    IF data.order = Nil THEN u
    ELSE LET update == data.order[1]
             orders ==
               IF is_zero(update.remaining) THEN DictPop(u.orders, update.order_hash)
               ELSE IF DictHas(u.orders, update.order_hash)
               THEN LET existing == DictGet(u.orders, update.order_hash)
                    IN  DictSet(u.orders, update.order_hash,
                                [existing EXCEPT !.remaining = update.remaining,
                                                 !.filled    = update.filled])
               ELSE IF Truthy(data.market_pubkey) /\ Truthy(data.orderbook_id)
               THEN DictSet(u.orders, update.order_hash, OrderFromUpdate(data))
               ELSE u.orders
             balances ==
               IF update.balance # Nil
               THEN apply_balance_from_order(u.balances, data, update.balance[1])
               ELSE u.balances
         IN  [u EXCEPT !.orders         = orders,
                       !.balances       = balances,
                       !.last_timestamp = data.timestamp]

\* UserState.apply_balance_update
apply_balance_update(u, data) ==
    [u EXCEPT !.balances =
                 IF Truthy(data.market_pubkey) /\ Truthy(data.deposit_mint) /\ data.balance # Nil
                 THEN DictSet(u.balances, BalanceKey(data.market_pubkey, data.deposit_mint),
                              BalanceEntry(data.market_pubkey, data.deposit_mint,
                                           data.balance[1].outcomes))
                 ELSE u.balances,
              !.last_timestamp = data.timestamp]

\* UserState.apply_event
user_apply_event(u, data) ==
    IF data.event_type = "snapshot" THEN user_apply_snapshot(u, data)
    ELSE IF data.event_type = "order_update" THEN apply_order_update(u, data)
    ELSE IF data.event_type = "balance_update" THEN apply_balance_update(u, data)
    ELSE u

(***************************************************************************)
(* Events and the event queue (client.py).  An event is a record of its    *)
(* kind, the attempt number of a Reconnecting event and the error of an    *)
(* Error event.                                                            *)
(***************************************************************************)
\* WebSocketConfig.event_queue_size (10000 by default), scaled down
QueueSize == 1

\* WebSocketConfig.max_reconnect_attempts (5 by default), scaled down
MaxReconnectAttempts == 2

\* the close code the receive loop treats as a rate limit
RateLimitCode == 1008

WsEvent(type, attempt, error) == [type |-> type, attempt |-> attempt, error |-> error]

\* _queue_event giving up on a full queue instead of dropping the oldest
queue_event_keeps_oldest(q, event) ==
    IF Len(q) < QueueSize THEN Append(q, event)
    ELSE q

\* _queue_event: put_nowait; when the queue is full the oldest event is
\* dropped and the put repeated
queue_event(q, event) ==
    IF Len(q) < QueueSize THEN Append(q, event)
    ELSE Append(Tail(q), event)

RECURSIVE queue_events(_, _)
\* _queue_event for each event of a list, in order
queue_events(q, events) ==
    IF events = <<>> THEN q
    ELSE queue_events(queue_event(q, Head(events)), Tail(events))

(***************************************************************************)
(* SubscriptionManager (subscriptions.py).  A Subscription keeps the       *)
(* fields of the dataclass; an absent id list is the empty set, an absent  *)
(* string None, an absent include_ohlcv FALSE (to_params sends False).     *)
(***************************************************************************)
Subscription(type_, orderbook_ids, user, orderbook_id, resolution, include_ohlcv, market_pubkey) ==
    [type_ |-> type_, orderbook_ids |-> orderbook_ids, user |-> user,
     orderbook_id |-> orderbook_id, resolution |-> resolution,
     include_ohlcv |-> include_ohlcv, market_pubkey |-> market_pubkey]

BookUpdateSub(ids) == Subscription("book_update", ids, None, None, None, FALSE, None)

TradesSub(ids) == Subscription("trades", ids, None, None, None, FALSE, None)

UserSub(user) == Subscription("user", {}, user, None, None, FALSE, None)

PriceHistorySub(orderbook_id, resolution, include_ohlcv) ==
    Subscription("price_history", {}, None, orderbook_id, resolution, include_ohlcv, None)

MarketSub(market_pubkey) == Subscription("market", {}, None, None, None, FALSE, market_pubkey)

\* SubscriptionManager.__init__
NewSubscriptionManager ==
    [book_updates |-> {}, trades |-> {}, users |-> {}, price_history |-> {}, markets |-> {}]

RECURSIVE SetToSeq(_)
\* iteration over a set or a dict's values, in one fixed order
SetToSeq(S) ==
    IF S = {} THEN <<>>
    ELSE LET x == CHOOSE y \in S : TRUE IN <<x>> \o SetToSeq(S \ {x})

\* get_all_subscriptions with the market loop left out
get_all_subscriptions_without_markets(reg) ==
    (IF reg.book_updates # {} THEN <<BookUpdateSub(reg.book_updates)>> ELSE <<>>)
    \o (IF reg.trades # {} THEN <<TradesSub(reg.trades)>> ELSE <<>>)
    \o SetToSeq({UserSub(u) : u \in reg.users})
    \o SetToSeq(reg.price_history)

\* SubscriptionManager.get_all_subscriptions: one grouped book_update
\* subscription, one grouped trades subscription, then one per user, per
\* price history and per market
get_all_subscriptions(reg) ==
    (IF reg.book_updates # {} THEN <<BookUpdateSub(reg.book_updates)>> ELSE <<>>)
    \o (IF reg.trades # {} THEN <<TradesSub(reg.trades)>> ELSE <<>>)
    \o SetToSeq({UserSub(u) : u \in reg.users})
    \o SetToSeq(reg.price_history)
    \o SetToSeq({MarketSub(m) : m \in reg.markets})

\* the single entries a subscription frame covers: one per orderbook id of a
\* grouped frame
Units(sub) ==
    IF sub.type_ \in {"book_update", "trades"}
    THEN {[sub EXCEPT !.orderbook_ids = {x}] : x \in sub.orderbook_ids}
    ELSE {sub}

\* every entry the registry holds, as single-entry subscriptions
RegistryEntries(reg) ==
    {BookUpdateSub({x}) : x \in reg.book_updates}
    \cup {TradesSub({x}) : x \in reg.trades}
    \cup {UserSub(u) : u \in reg.users}
    \cup reg.price_history
    \cup {MarketSub(m) : m \in reg.markets}

\* the add_* method a subscription goes through
registry_add(reg, sub) ==
    CASE sub.type_ = "book_update"
           -> [reg EXCEPT !.book_updates = @ \cup sub.orderbook_ids]
      [] sub.type_ = "trades"
           -> [reg EXCEPT !.trades = @ \cup sub.orderbook_ids]
      [] sub.type_ = "user"
           -> [reg EXCEPT !.users = @ \cup {sub.user}]
      [] sub.type_ = "price_history"
           -> [reg EXCEPT !.price_history =
                 {e \in @ : ~(e.orderbook_id = sub.orderbook_id /\ e.resolution = sub.resolution)}
                 \cup {sub}]
      [] sub.type_ = "market"
           -> [reg EXCEPT !.markets = @ \cup {sub.market_pubkey}]

\* the remove_* method a subscription goes through
registry_remove(reg, sub) ==
    CASE sub.type_ = "book_update"
           -> [reg EXCEPT !.book_updates = @ \ sub.orderbook_ids]
      [] sub.type_ = "trades"
           -> [reg EXCEPT !.trades = @ \ sub.orderbook_ids]
      [] sub.type_ = "user"
           -> [reg EXCEPT !.users = @ \ {sub.user}]
      [] sub.type_ = "price_history"
           -> [reg EXCEPT !.price_history =
                 {e \in @ : ~(e.orderbook_id = sub.orderbook_id /\ e.resolution = sub.resolution)}]
      [] sub.type_ = "market"
           -> [reg EXCEPT !.markets = @ \ {sub.market_pubkey}]

\* two single-entry subscriptions name the same channel (the include_ohlcv
\* flag of a price history is not part of its key)
SameChannel(a, b) == [a EXCEPT !.include_ohlcv = FALSE] = [b EXCEPT !.include_ohlcv = FALSE]

(***************************************************************************)
(* MessageHandler as the client sees it when subscribing (handlers.py):    *)
(* the keys of its replica dicts and the subscribed user.                  *)
(***************************************************************************)
\* MessageHandler.__init__
NewMessageHandler ==
    [orderbooks |-> {}, user_states |-> {}, price_histories |-> {}, subscribed_user |-> None]

\* init_orderbook for each id, init_user_state, init_price_history: what a
\* subscribe_* call does to the handler before it records the subscription
handler_init(h, sub) ==
    CASE sub.type_ = "book_update"
           -> [h EXCEPT !.orderbooks = @ \cup sub.orderbook_ids]
      [] sub.type_ = "user"
           -> [h EXCEPT !.subscribed_user = sub.user, !.user_states = @ \cup {sub.user}]
      [] sub.type_ = "price_history"
           -> [h EXCEPT !.price_histories = @ \cup {<<sub.orderbook_id, sub.resolution>>}]
      [] OTHER -> h

\* clear_subscribed_user, which unsubscribe_user calls; the other
\* unsubscribe_* calls leave the handler alone
handler_release(h, sub) ==
    IF sub.type_ = "user" /\ h.subscribed_user = sub.user
    THEN [h EXCEPT !.subscribed_user = None]
    ELSE h

(***************************************************************************)
(* MessageHandler._handle_book_update (handlers.py).  _orderbooks is a     *)
(* function from the ids that have a replica to their LocalOrderbook; an   *)
(* event is a record of its kind, orderbook id and snapshot flag.          *)
(***************************************************************************)
BookEvent(type, orderbook_id, is_snapshot) ==
    [type |-> type, orderbook_id |-> orderbook_id, is_snapshot |-> is_snapshot]

\* WsEvent.error(error): an Error event names its exception
ErrorEvent(error) ==
    [type |-> "Error", orderbook_id |-> None, is_snapshot |-> FALSE, error |-> error]

\* init_orderbook, and the "get or create" of _handle_book_update
init_orderbook(obs, orderbook_id) ==
    IF orderbook_id \in DOMAIN obs THEN obs
    ELSE [id \in DOMAIN obs \cup {orderbook_id} |->
             IF id = orderbook_id THEN NewOrderbook(orderbook_id) ELSE obs[id]]

\* _handle_book_update with the replica left as it is on a sequence gap
handle_book_update_keeps_book(obs, data) ==
    IF "orderbook_id" \notin DOMAIN data
    THEN [orderbooks |-> obs, events |-> <<ErrorEvent("MessageParseError")>>]
    ELSE IF data.resync
    THEN [orderbooks |-> obs,
          events     |-> <<BookEvent("ResyncRequired", data.orderbook_id, FALSE)>>]
    ELSE LET created == init_orderbook(obs, data.orderbook_id)
             r       == apply_update(created[data.orderbook_id], data)
         IN  IF r.raised.type = "SequenceGapError"
             THEN [orderbooks |-> created,
                   events     |-> <<BookEvent("ResyncRequired", data.orderbook_id, FALSE)>>]
             ELSE [orderbooks |-> [created EXCEPT ![data.orderbook_id] = r.book],
                   events     |-> <<BookEvent("BookUpdate", data.orderbook_id,
                                              data.is_snapshot)>>]

\* _handle_book_update with the replica fetched or created before the
\* resync test
handle_book_update_resync_creates(obs, data) ==
    IF "orderbook_id" \notin DOMAIN data
    THEN [orderbooks |-> obs, events |-> <<ErrorEvent("MessageParseError")>>]
    ELSE LET created == init_orderbook(obs, data.orderbook_id)
             r       == apply_update(created[data.orderbook_id], data)
         IN  IF data.resync
             THEN [orderbooks |-> created,
                   events     |-> <<BookEvent("ResyncRequired", data.orderbook_id, FALSE)>>]
             ELSE IF r.raised.type = "SequenceGapError"
             THEN [orderbooks |-> [created EXCEPT ![data.orderbook_id] = clear(r.book)],
                   events     |-> <<BookEvent("ResyncRequired", data.orderbook_id, FALSE)>>]
             ELSE [orderbooks |-> [created EXCEPT ![data.orderbook_id] = r.book],
                   events     |-> <<BookEvent("BookUpdate", data.orderbook_id,
                                              data.is_snapshot)>>]

\* MessageHandler._handle_book_update: data that BookUpdateData.from_dict
\* rejects gives one Error event; a resync frame gives ResyncRequired and
\* touches nothing; otherwise the replica is fetched or created and the
\* update applied, a SequenceGapError clearing the replica and giving
\* ResyncRequired
handle_book_update(obs, data) ==
    IF "orderbook_id" \notin DOMAIN data
    THEN [orderbooks |-> obs, events |-> <<ErrorEvent("MessageParseError")>>]
    ELSE IF data.resync
    THEN [orderbooks |-> obs,
          events     |-> <<BookEvent("ResyncRequired", data.orderbook_id, FALSE)>>]
    ELSE LET created == init_orderbook(obs, data.orderbook_id)
             r       == apply_update(created[data.orderbook_id], data)
         IN  IF r.raised.type = "SequenceGapError"
             THEN [orderbooks |-> [created EXCEPT ![data.orderbook_id] = clear(r.book)],
                   events     |-> <<BookEvent("ResyncRequired", data.orderbook_id, FALSE)>>]
             ELSE [orderbooks |-> [created EXCEPT ![data.orderbook_id] = r.book],
                   events     |-> <<BookEvent("BookUpdate", data.orderbook_id,
                                              data.is_snapshot)>>]

(***************************************************************************)
(* MessageHandler.handle_message (handlers.py).  A text frame is held as   *)
(* what json.loads makes of it: "invalid" when it raises JSONDecodeError,  *)
(* the kind of value when it is no object, and for an object its "type"    *)
(* and "data" keys where present.  The result tells the exception that     *)
(* leaves the call, "none" when it returns.                                *)
(***************************************************************************)
NoRaise == "none"

\* _handle_trade: TradeData.from_dict needs every field of a trade
handle_trade(data) ==
    IF {"orderbook_id", "price", "size", "side", "timestamp", "trade_id"} \subseteq DOMAIN data
    THEN <<BookEvent("Trade", data.orderbook_id, FALSE)>>
    ELSE <<ErrorEvent("MessageParseError")>>

\* MessageHandler.handle_message: json.loads raising JSONDecodeError gives
\* one Error(MessageParseError); RawWsMessage.from_dict calls data.get,
\* which a JSON value that is no object does not have, and the
\* AttributeError is not caught here; an object goes to the handler of its
\* type, an unknown or missing type giving no event
handle_message(obs, text) ==
    IF text.json = "invalid"
    THEN [raised |-> NoRaise, orderbooks |-> obs, events |-> <<ErrorEvent("MessageParseError")>>]
    ELSE IF text.json # "object"
    THEN [raised |-> "AttributeError", orderbooks |-> obs, events |-> <<>>]
    ELSE LET type_ == IF "type" \in DOMAIN text THEN text.type ELSE ""
             data  == IF "data" \in DOMAIN text THEN text.data ELSE [x \in {} |-> None]
         IN  IF type_ = "book_update"
             THEN LET r == handle_book_update(obs, data)
                  IN  [raised |-> NoRaise, orderbooks |-> r.orderbooks, events |-> r.events]
             ELSE [raised     |-> NoRaise,
                   orderbooks |-> obs,
                   events     |-> CASE type_ = "trades" -> handle_trade(data)
                                    [] type_ = "pong"   -> <<BookEvent("Pong", None, FALSE)>>
                                    [] OTHER            -> <<>>]

(***************************************************************************)
(* Inbound book_update frames (BookUpdateData, types.py).  A frame carries *)
(* at most two bid levels and at most one ask level; bid prices have two   *)
(* spellings of one number, sizes have zero in a spelling the literal test *)
(* of is_zero_size knows and in one only float() recognises.               *)
(***************************************************************************)
OrderbookIds == {"m:ob1", "m:ob2"}

Timestamps == {"t1", "t2"}

BidPrices == {"1.0", "1.00"}

BidSizes == {"0.00", "5"}

AskPrices == {"3"}

AskSizes == {"0", "5"}

BidLevels == [price : BidPrices, size : BidSizes]

AskLevels == [price : AskPrices, size : AskSizes]

BidLists == {<<>>} \cup {<<a>> : a \in BidLevels} \cup {<<a, b>> : a \in BidLevels, b \in BidLevels}

AskLists == {<<>>} \cup {<<a>> : a \in AskLevels}

BookUpdates(ids) ==
    [orderbook_id : ids, timestamp : Timestamps, seq : 0..MaxSeq,
     bids : BidLists, asks : AskLists, is_snapshot : BOOLEAN, resync : {FALSE}]

(***************************************************************************)
(* State.                                                                  *)
(***************************************************************************)
VARIABLES
    book,       \* SpecBook: the LocalOrderbook under test
    raised,     \* SpecBook: the exception its last operation raised, or NoError
    bookOp,     \* SpecBook: the last operation called on it
    priorHeld,  \* SpecBook: whether it held levels when that operation began
    recent      \* SpecBook: per side and numeric price, whether the most recent
                \*           applied level for it carried a zero size

VARIABLES
    run         \* SpecRun: a LocalOrderbook fed consecutive deltas, with the
                \*          book it started from and the levels fed so far

VARIABLES
    history,    \* SpecPrice: the PriceHistory under test
    priceOp     \* SpecPrice: the last event applied to it

bookVars == <<book, raised, bookOp, priorHeld, recent>>

runVars == <<run>>

VARIABLES
    ustate,     \* SpecUser: the UserState under test
    userOp      \* SpecUser: the last event applied to it and the branch it took

VARIABLES
    reconnect,      \* SpecConn: self._reconnect, fixed at construction
    connected,      \* self._connected
    running,        \* self._running
    ws,             \* self._ws: no socket, or a socket open or closed with a code
    awaiting_pong,  \* self._awaiting_pong
    pong_late,      \* time.time() - self._last_pong > pong_timeout_secs
    registry,       \* self._subscriptions
    handler,        \* self._handler: replica keys and subscribed user
    queue,          \* self._event_queue
    connecting,     \* a connect() call is inside its handshake
    task,           \* self._receive_task: where _receive_loop stands
    server,         \* the entries the current socket's peer has been asked for
    calls,          \* subscribe_* and unsubscribe_* calls made so far
    queuedNow,      \* history: the events queued by the last step
    attemptsMade,   \* history: ws_connect calls made by the receive loop
    lost,           \* history: the loop found the link lost and has not reconnected
    kept,           \* history: entries held at the loss and not removed since
    replay          \* history: the registry and the frames of the last replay

VARIABLES
    orderbooks,     \* SpecDispatch: self._handler._orderbooks
    emitted,        \* SpecDispatch: the events the last step queued
    dispatched      \* SpecDispatch: history, the kind of the last step

VARIABLES
    produced,       \* SpecQueue: history, the events _queue_event was called with
    consumed        \* SpecQueue: history, the events the consumer has received

VARIABLES
    userStates,     \* SpecSubs: self._handler._user_states
    subCall,        \* SpecSubs: history, the last subscribe_* or unsubscribe_user call
    subRaised       \* SpecSubs: history, the exception that call raised, or "none"

VARIABLES
    callers,        \* SpecConnect: where each _connect() call stands, or how it ended
    opened,         \* SpecConnect: sockets ws_connect has returned
    started         \* SpecConnect: receive tasks created

VARIABLES
    disc,           \* SpecLife: where disconnect() stands and how many calls have returned
    consumer        \* SpecLife: where the consumer of the event stream stands

VARIABLES
    ping_late       \* SpecPong: more than pong_timeout_secs have gone by since the last ping()

VARIABLES
    histories,      \* SpecHist: the handler's _price_histories, by key
    histOp          \* SpecHist: what the last price_history frame was to the handler

pongVars == <<ping_late>>

histVars == <<histories, histOp>>

priceVars == <<history, priceOp>>

connectVars == <<callers, opened, started>>

lifeVars == <<disc, consumer>>

subsVars == <<userStates, subCall, subRaised>>

queueVars == <<produced, consumed>>

dispatchVars == <<orderbooks, emitted, dispatched>>

connVars == <<reconnect, connected, running, ws, awaiting_pong, pong_late, registry,
              handler, queue, connecting, task, server, calls, queuedNow,
              attemptsMade, lost, kept, replay>>

userVars == <<ustate, userOp>>

vars == <<bookVars, runVars, priceVars, userVars, connVars, dispatchVars, queueVars,
          subsVars, connectVars, lifeVars, pongVars, histVars>>

\* no ping() made yet
PongIdle == ping_late = FALSE

\* a handler without price history, no frame handled
HistIdle ==
    /\ histories = <<>>
    /\ histOp = "none"

(***************************************************************************)
(* SpecRun: a LocalOrderbook that is fed deltas carrying seq s, s+1, ...   *)
(* in that order, from a fresh book or from one that holds a snapshot.     *)
(***************************************************************************)
\* the number of consecutive deltas of a run
MaxDeltas == 3

RunBidLists ==
    {<<>>}
    \cup {<<a>> : a \in [price : BidPrices, size : {"0.00", "5", "7"}]}
    \cup {<<[price |-> "1.0", size |-> "5"], [price |-> "1.0", size |-> "0.00"]>>,
          <<[price |-> "1.0", size |-> "0.00"], [price |-> "1.0", size |-> "7"]>>}

\* the snapshots a run may start from
RunSnapshots ==
    {[orderbook_id |-> "m:ob1", timestamp |-> "t1", seq |-> sq,
      bids |-> <<[price |-> "1.0", size |-> "5"]>>,
      asks |-> <<[price |-> "3", size |-> "5"]>>,
      is_snapshot |-> TRUE, resync |-> FALSE] : sq \in {0, 1}}

RunStart(b) ==
    [base |-> b, book |-> b, bids |-> <<>>, asks |-> <<>>, count |-> 0, accepted |-> TRUE]

RunIdle == run = RunStart(NewOrderbook("m:ob1"))

RunInit ==
    run \in {RunStart(NewOrderbook("m:ob1"))}
            \cup {RunStart(apply_snapshot(NewOrderbook("m:ob1"), u)) : u \in RunSnapshots}

\* the next delta of the run arrives: its seq is the one after the previous
\* delta's (the start's expected_seq for the first)
RunDelta(bidList, askList) ==
    /\ run.count < MaxDeltas
    /\ LET update == [orderbook_id |-> "m:ob1", timestamp |-> "t2",
                      seq |-> run.base.expected_seq + run.count,
                      bids |-> bidList, asks |-> askList,
                      is_snapshot |-> FALSE, resync |-> FALSE]
           r == apply_delta(run.book, update)
       IN  run' = [run EXCEPT !.book     = r.book,
                              !.bids     = run.bids \o bidList,
                              !.asks     = run.asks \o askList,
                              !.count    = run.count + 1,
                              !.accepted = run.accepted /\ r.raised = NoError]
    /\ UNCHANGED <<bookVars, priceVars, userVars, connVars, dispatchVars, queueVars, subsVars,
                   connectVars, lifeVars, pongVars, histVars>>

RunNext == \E bidList \in RunBidLists, askList \in AskLists : RunDelta(bidList, askList)

(***************************************************************************)
(* SpecBook: one LocalOrderbook, called directly.                          *)
(***************************************************************************)
NumericPrices == {Float[p].v : p \in BidPrices \cup AskPrices}

\* a size that denotes the number zero, whatever its spelling
NumericallyZero(size) == Float[size].ok /\ Float[size].v = 0

NoRecent == [side \in {"bid", "ask"} |-> [n \in NumericPrices |-> "none"]]

RECURSIVE NoteLevels(_, _)
\* history: the levels of one side, in arrival order, noted by numeric price
NoteLevels(r, levels) ==
    IF levels = <<>> THEN r
    ELSE LET l == Head(levels)
         IN  NoteLevels([r EXCEPT ![Float[l.price].v] =
                                    IF NumericallyZero(l.size) THEN "zero" ELSE "nonzero"],
                        Tail(levels))

NoteUpdate(r, update) ==
    [side \in {"bid", "ask"} |->
        NoteLevels(r[side], IF side = "bid" THEN update.bids ELSE update.asks)]

HoldsLevels(b) == b.bids # <<>> \/ b.asks # <<>>

BookInit ==
    /\ book = NewOrderbook("m:ob1")
    /\ raised = NoError
    /\ bookOp = "__init__"
    /\ priorHeld = FALSE
    /\ recent = NoRecent

\* the variables of the other specifications, which SpecBook leaves alone
BookFrame == UNCHANGED <<runVars, priceVars, userVars, connVars, dispatchVars, queueVars,
                         subsVars, connectVars, lifeVars, pongVars, histVars>>

\* a caller applies a snapshot
BookApplySnapshot(update) ==
    /\ update.is_snapshot
    /\ book' = apply_snapshot(book, update)
    /\ raised' = NoError
    /\ bookOp' = "apply_snapshot"
    /\ priorHeld' = HoldsLevels(book)
    /\ recent' = NoteUpdate(NoRecent, update)
    /\ BookFrame

\* a caller applies a delta; on SequenceGapError nothing of it was applied
BookApplyDelta(update) ==
    /\ ~update.is_snapshot
    /\ LET r == apply_delta(book, update)
       IN  /\ book' = r.book
           /\ raised' = r.raised
           /\ recent' = IF r.raised = NoError THEN NoteUpdate(recent, update) ELSE recent
    /\ bookOp' = "apply_delta"
    /\ priorHeld' = HoldsLevels(book)
    /\ BookFrame

\* a caller clears the book
BookClear ==
    /\ book' = clear(book)
    /\ raised' = NoError
    /\ bookOp' = "clear"
    /\ priorHeld' = HoldsLevels(book)
    /\ recent' = NoRecent
    /\ BookFrame

BookNext ==
    \/ \E update \in BookUpdates({"m:ob1"}) : BookApplySnapshot(update)
    \/ \E update \in BookUpdates({"m:ob1"}) : BookApplyDelta(update)
    \/ BookClear

(***************************************************************************)
(* Claims about LocalOrderbook.                                            *)
(***************************************************************************)
BookDeltas == {u \in BookUpdates({"m:ob1"}) : ~u.is_snapshot}

BookSnapshots == {u \in BookUpdates({"m:ob1"}) : u.is_snapshot}

\* C1: whatever the book holds, a delta whose seq is not expected_seq raises
\* SequenceGapError(expected_seq, delta.seq) and leaves bids, asks,
\* expected_seq, has_snapshot and last_timestamp as they were; and a book on
\* which apply_delta has just raised shows the expected_seq the error carries.
C1_GapLeavesBookUntouched ==
    /\ \A update \in BookDeltas :
          update.seq # book.expected_seq =>
             apply_delta(book, update) =
                [book |-> book, raised |-> SequenceGapError(book.expected_seq, update.seq)]
    /\ (bookOp = "apply_delta" /\ raised # NoError) =>
          /\ raised.type = "SequenceGapError"
          /\ raised.expected = book.expected_seq
          /\ raised.received # raised.expected

\* C1 witness: apply_delta has just raised on a book that holds bids and
\* asks, and the rejected delta is one of those that carry levels.
C1_Witness ==
    /\ bookOp = "apply_delta"
    /\ raised.type = "SequenceGapError"
    /\ book.bids # <<>>
    /\ book.asks # <<>>
    /\ book.has_snapshot

\* the size stored for price p by the last level of a list that names p with
\* a size that is not numerically zero, None when there is no such level
LastNonZero(levels, p) ==
    LET hits == {i \in 1..Len(levels) :
                    levels[i].price = p /\ ~NumericallyZero(levels[i].size)}
    IN  IF hits = {} THEN None
        ELSE levels[CHOOSE i \in hits : \A j \in hits : j <= i].size

\* C3: apply_snapshot raises nothing and its result is a function of the
\* snapshot alone: the sides hold exactly the snapshot's non-zero levels,
\* expected_seq = seq + 1, has_snapshot is set, the result equals that on a
\* fresh book, and applying the snapshot again changes nothing.
C3_SnapshotDependsOnSnapshotOnly ==
    /\ \A update \in BookSnapshots :
          LET b1 == apply_snapshot(book, update)
          IN  /\ \A p \in BidPrices : bid_size_at(b1, p) = LastNonZero(update.bids, p)
              /\ \A p \in AskPrices : ask_size_at(b1, p) = LastNonZero(update.asks, p)
              /\ Cardinality(DictKeys(b1.bids)) = Len(b1.bids)
              /\ Cardinality(DictKeys(b1.asks)) = Len(b1.asks)
              /\ b1.expected_seq = update.seq + 1
              /\ b1.has_snapshot
              /\ b1 = apply_snapshot(NewOrderbook(book.orderbook_id), update)
              /\ apply_snapshot(b1, update) = b1
    /\ bookOp = "apply_snapshot" => (raised = NoError /\ book.has_snapshot)

\* C3 witness: a snapshot without non-zero levels was applied to a book that
\* held levels and had moved past the snapshot's seq; the book is empty.
C3_Witness ==
    /\ bookOp = "apply_snapshot"
    /\ priorHeld
    /\ book.bids = <<>>
    /\ book.asks = <<>>
    /\ book.expected_seq = 1

PricesOf(levels) == {levels[i].price : i \in 1..Len(levels)}

\* C5: no stored size is numerically zero, and a numeric price whose most
\* recent applied level carried a zero size is absent from best_bid/best_ask,
\* from get_top_bids/get_top_asks and from bid_size_at/ask_size_at.
C5_ZeroLevelAbsent ==
    /\ \A i \in 1..Len(book.bids) : ~NumericallyZero(book.bids[i].value)
    /\ \A i \in 1..Len(book.asks) : ~NumericallyZero(book.asks[i].value)
    /\ \A n \in NumericPrices :
          recent["bid"][n] = "zero" =>
             /\ best_bid(book) # None => Float[best_bid(book)[1]].v # n
             /\ \A p \in PricesOf(get_top_bids(book, Len(book.bids))) : Float[p].v # n
             /\ \A p \in BidPrices : Float[p].v = n => bid_size_at(book, p) = None
    /\ \A n \in NumericPrices :
          recent["ask"][n] = "zero" =>
             /\ best_ask(book) # None => Float[best_ask(book)[1]].v # n
             /\ \A p \in PricesOf(get_top_asks(book, Len(book.asks))) : Float[p].v # n
             /\ \A p \in AskPrices : Float[p].v = n => ask_size_at(book, p) = None

(***************************************************************************)
(* SpecRun and the claim about consecutive deltas.                         *)
(***************************************************************************)
\* what a price holds after the levels of a side were applied in arrival
\* order to the dict d: the size of the last level that names the price, None
\* when that size is numerically zero, and what d held when no level names it
Accumulated(d, levels, p) ==
    LET hits == {i \in 1..Len(levels) : levels[i].price = p}
    IN  IF hits = {} THEN DictGet(d, p)
        ELSE LET l == levels[CHOOSE i \in hits : \A j \in hits : j <= i]
             IN  IF NumericallyZero(l.size) THEN None ELSE l.size

\* C2: k deltas carrying seq s, ..., s+k-1 applied in that order to a book
\* that expects s are all accepted, leave bids and asks equal to the levels
\* accumulated in arrival order (upsert for a non-zero size, removal for a
\* zero size), and leave expected_seq at s + k.
C2_ConsecutiveDeltasAccumulate ==
    /\ run.accepted
    /\ run.book.expected_seq = run.base.expected_seq + run.count
    /\ \A p \in BidPrices : bid_size_at(run.book, p) = Accumulated(run.base.bids, run.bids, p)
    /\ \A p \in AskPrices : ask_size_at(run.book, p) = Accumulated(run.base.asks, run.asks, p)
    /\ Cardinality(DictKeys(run.book.bids)) = Len(run.book.bids)
    /\ Cardinality(DictKeys(run.book.asks)) = Len(run.book.asks)

\* C2 witness: a full run from a book that held a snapshot has replaced one
\* level, removed another and added a third.
C2_Witness ==
    /\ run.count = MaxDeltas
    /\ run.base.has_snapshot
    /\ bid_size_at(run.base, "1.0") = "5"
    /\ bid_size_at(run.book, "1.0") = "7"
    /\ bid_size_at(run.book, "1.00") = "5"
    /\ ask_size_at(run.book, "3") = None

(***************************************************************************)
(* SpecPrice: one PriceHistory under snapshot, update and heartbeat events *)
(* (PriceHistoryData, types.py).  Snapshots carry up to three candles in   *)
(* any order, so one more than the cap.                                    *)
(***************************************************************************)
CandleTimes == {90, 100, 110}

SnapshotCandles == [t : CandleTimes, m : {"a"}]

SnapshotPrices ==
    {<<>>} \cup {<<a>> : a \in SnapshotCandles}
           \cup {<<a, b>> : a \in SnapshotCandles, b \in SnapshotCandles}
           \cup {<<a, b, c>> : a \in SnapshotCandles, b \in SnapshotCandles, c \in SnapshotCandles}

PriceSnapshots ==
    [event_type : {"snapshot"}, orderbook_id : {"m:ob1"}, resolution : {"1m"},
     include_ohlcv : {Nil, Some(TRUE)}, prices : SnapshotPrices,
     last_timestamp : {Nil}, server_time : {Some(1)}]

PriceUpdates ==
    [event_type : {"update"}, orderbook_id : {"m:ob1"}, resolution : {"1m"},
     t : CandleTimes, m : {"a", "b"}]
    \cup [event_type : {"update"}, orderbook_id : {"m:ob1"}, resolution : {"1m"}]

PriceHeartbeats == [event_type : {"heartbeat"}, server_time : {Some(1), Some(2)}]

PriceInit ==
    /\ history = NewPriceHistory("m:ob1", "1m", FALSE)
    /\ priceOp = "__init__"

PriceFrame == UNCHANGED <<bookVars, runVars, userVars, connVars, dispatchVars, queueVars,
                          subsVars, connectVars, lifeVars, pongVars, histVars>>

PriceApplyEvent(data) ==
    /\ history' = ph_apply_event(history, data)
    /\ priceOp' = data.event_type
    /\ PriceFrame

PriceClear ==
    /\ history' = ph_clear(history)
    /\ priceOp' = "clear"
    /\ PriceFrame

PriceNext ==
    \/ \E data \in PriceSnapshots : PriceApplyEvent(data)
    \/ \E data \in PriceUpdates : PriceApplyEvent(data)
    \/ \E data \in PriceHeartbeats : PriceApplyEvent(data)
    \/ PriceClear

SortedDescending(candles) ==
    \A i \in 1..Len(candles), j \in 1..Len(candles) : i < j => candles[i].t >= candles[j].t

\* C6: in every reachable state a PriceHistory holds at most the cap of
\* candles (1000 in the code, MaxCandles here) and its candle list is sorted
\* descending by timestamp.
C6_CappedAndSorted ==
    /\ Len(history.candles) <= MaxCandles
    /\ SortedDescending(history.candles)

\* the candles an update event can carry
UpdateCandles == [t : CandleTimes, m : {"a", "b"}]

\* the timestamps of a candle list, in list order
Times(candles) == [i \in 1..Len(candles) |-> candles[i].t]

\* C19: from every reachable PriceHistory, a single-candle update whose
\* timestamp is already stored replaces the stored candle at its position
\* and leaves the number and order of timestamps unchanged; one with a new
\* timestamp is inserted where a descending list stays descending, after
\* which candles are dropped from the tail until at most the cap remain
\* (1000 in the code, MaxCandles here), each dropped timestamp leaving the
\* index as well.
C19_SingleCandleUpdate ==
    \A c \in UpdateCandles :
        LET old == history.candles
            r   == update_or_append_candle(history, c)
        IN  IF \E i \in 1..Len(old) : old[i].t = c.t
            THEN /\ Times(r.candles) = Times(old)
                 /\ \E i \in 1..Len(old) : old[i].t = c.t /\ r.candles = [old EXCEPT ![i] = c]
            ELSE \E pos \in 0..Len(old) :
                    LET ins == ListInsert(old, pos, c)
                    IN  /\ SortedDescending(old) => SortedDescending(ins)
                        /\ Len(r.candles) <= MaxCandles
                        /\ Len(r.candles) <= Len(ins)
                        /\ r.candles = SubSeq(ins, 1, Len(r.candles))
                        /\ Len(ins) <= MaxCandles => r.candles = ins
                        /\ \A i \in (Len(r.candles) + 1)..Len(ins) :
                              ins[i].t \notin DOMAIN r.candle_index

(***************************************************************************)
(* SpecCandles: one PriceHistory under snapshots whose candles carry       *)
(* pairwise distinct timestamps, in any order, and single-candle updates.  *)
(***************************************************************************)
DistinctSnapshots ==
    {data \in PriceSnapshots :
        \A i \in 1..Len(data.prices), j \in 1..Len(data.prices) :
            i # j => data.prices[i].t # data.prices[j].t}

\* history: what _update_or_append_candle does with a candle stamped t
UpdateBranch(h, t) ==
    IF t \in DOMAIN h.candle_index THEN "replace"
    ELSE LET pos    == InsertPos(h.candles, t)
             middle == 0 < pos /\ pos < Len(h.candles)
             evicts == Len(h.candles) >= MaxCandles
         IN  IF middle /\ evicts THEN "insert_middle_evict"
             ELSE IF middle THEN "insert_middle"
             ELSE IF evicts THEN "insert_evict"
             ELSE "insert"

CandlesSnapshot(data) ==
    /\ history' = ph_apply_event(history, data)
    /\ priceOp' = "snapshot"
    /\ PriceFrame

CandlesUpdate(data) ==
    /\ history' = ph_apply_event(history, data)
    /\ priceOp' = IF "t" \in DOMAIN data THEN UpdateBranch(history, data.t) ELSE "no_candle"
    /\ PriceFrame

CandlesNext ==
    \/ \E data \in DistinctSnapshots : CandlesSnapshot(data)
    \/ \E data \in PriceUpdates : CandlesUpdate(data)
    \/ PriceClear

\* PriceHistory.get_candle: the candle at index[t], None when t is not in
\* the index
get_candle(h, t) ==
    IF t \notin DOMAIN h.candle_index THEN Nil
    ELSE IF h.candle_index[t] < Len(h.candles) THEN Some(h.candles[h.candle_index[t] + 1])
    ELSE <<"IndexError">>

\* C30: with snapshots of pairwise distinct timestamps, after any sequence
\* of snapshots, single-candle updates and clears the index of a
\* PriceHistory has exactly the stored timestamps as keys, the candle at
\* index[t] is stamped t, and get_candle(t) returns the candle stamped t
\* when one is stored and None otherwise.
C30_IndexConsistent ==
    LET stored == {history.candles[i].t : i \in 1..Len(history.candles)}
    IN  /\ DOMAIN history.candle_index = stored
        /\ \A t \in stored :
              /\ history.candle_index[t] \in 0..(Len(history.candles) - 1)
              /\ history.candles[history.candle_index[t] + 1].t = t
        /\ \A t \in CandleTimes :
              IF t \in stored
              THEN \E i \in 1..Len(history.candles) :
                      history.candles[i].t = t /\ get_candle(history, t) = Some(history.candles[i])
              ELSE get_candle(history, t) = Nil

\* an update has just put a new candle between two stored ones in a full
\* list, the oldest candle leaving list and index
C30_Witness ==
    /\ priceOp = "insert_middle_evict"
    /\ Times(history.candles) = <<110, 100>>
    /\ DOMAIN history.candle_index = {100, 110}
    /\ get_candle(history, 90) = Nil

(***************************************************************************)
(* SpecUser: one UserState under snapshot, order_update and balance_update *)
(* events (UserEventData, types.py).                                       *)
(***************************************************************************)
OrderHashes == {"h1", "h2"}

SnapshotOrder(h) ==
    [order_hash |-> h, market_pubkey |-> "mk1", orderbook_id |-> "mk1:ob1", side |-> 0,
     maker_amount |-> "7", taker_amount |-> "3", remaining |-> "7", filled |-> "0",
     price |-> "1.0", created_at |-> 1, expiration |-> 9]

Outcomes(idle) == <<[outcome_index |-> 0, mint |-> "yes", idle |-> idle, on_book |-> "0"]>>

SnapshotBalance(market_pubkey, deposit_mint) ==
    [key   |-> BalanceKey(market_pubkey, deposit_mint),
     value |-> BalanceEntry(market_pubkey, deposit_mint, Outcomes("5"))]

UserSnapshots ==
    [event_type : {"snapshot"},
     orders     : {<<>>, <<SnapshotOrder("h1")>>,
                   <<SnapshotOrder("h1"), SnapshotOrder("h2")>>},
     balances   : {<<>>, <<SnapshotBalance("mk1", "usdc")>>,
                   <<SnapshotBalance("mk", "usdc"), SnapshotBalance("mk1", "usdc")>>},
     timestamp  : {"t1"}]

InlineBalances == {Nil, Some([outcomes |-> Outcomes("7")])}

OrderUpdates ==
    [order_hash : OrderHashes, price : {"1.0"}, fill_amount : {"2"},
     remaining : {"0", "0.00", "5", "x"}, filled : {"2"}, side : {0},
     is_maker : {TRUE}, created_at : {2}, balance : InlineBalances]

UserOrderUpdates ==
    [event_type    : {"order_update"},
     order         : {Nil} \cup {Some(o) : o \in OrderUpdates},
     market_pubkey : {None, "", "mk1"},
     orderbook_id  : {None, "mk1:ob1"},
     deposit_mint  : {None, "usdc"},
     timestamp     : {"t2"}]

UserBalanceUpdates ==
    [event_type    : {"balance_update"},
     balance       : InlineBalances,
     market_pubkey : {None, "mk1"},
     deposit_mint  : {None, "usdc"},
     timestamp     : {"t2"}]

\* the branch apply_order_update takes on data from state u
OrderBranch(u, data) ==
    IF data.order = Nil THEN "no_order"
    ELSE IF is_zero(data.order[1].remaining) THEN "removed"
    ELSE IF DictHas(u.orders, data.order[1].order_hash) THEN "updated"
    ELSE IF Truthy(data.market_pubkey) /\ Truthy(data.orderbook_id) THEN "created"
    ELSE "ignored"

UserInit ==
    /\ ustate = NewUserState("alice")
    /\ userOp = "__init__"

UserFrame == UNCHANGED <<bookVars, runVars, priceVars, connVars, dispatchVars, queueVars,
                         subsVars, connectVars, lifeVars, pongVars, histVars>>

UserApplySnapshot(data) ==
    /\ ustate' = user_apply_event(ustate, data)
    /\ userOp' = "snapshot"
    /\ UserFrame

UserApplyOrderUpdate(data) ==
    /\ ustate' = user_apply_event(ustate, data)
    /\ userOp' = OrderBranch(ustate, data)
    /\ UserFrame

UserApplyBalanceUpdate(data) ==
    /\ ustate' = user_apply_event(ustate, data)
    /\ userOp' = "balance_update"
    /\ UserFrame

UserNext ==
    \/ \E data \in UserSnapshots : UserApplySnapshot(data)
    \/ \E data \in UserOrderUpdates : UserApplyOrderUpdate(data)
    \/ \E data \in UserBalanceUpdates : UserApplyBalanceUpdate(data)

\* C7: apply_order_update, on every update from every reachable UserState:
\* a numerically zero remaining leaves the hash absent; a non-zero remaining
\* for a known hash changes only that order's remaining and filled; for an
\* unknown hash it creates the order when market and orderbook id both
\* accompany the update and nothing when either is missing; no order under
\* another hash is changed.
C7_OrderUpdateCases ==
    \A data \in UserOrderUpdates :
        data.order # Nil =>
            LET update == data.order[1]
                h      == update.order_hash
                before == ustate.orders
                after  == apply_order_update(ustate, data).orders
                zero   == NumericallyZero(update.remaining)
                known  == DictHas(before, h)
                full   == Truthy(data.market_pubkey) /\ Truthy(data.orderbook_id)
            IN  /\ zero => ~DictHas(after, h)
                /\ (~zero /\ known) =>
                      /\ DictHas(after, h)
                      /\ DictGet(after, h) = [DictGet(before, h) EXCEPT
                                                 !.remaining = update.remaining,
                                                 !.filled    = update.filled]
                /\ (~zero /\ ~known /\ full) =>
                      /\ DictHas(after, h)
                      /\ DictGet(after, h).order_hash = h
                      /\ DictGet(after, h).remaining = update.remaining
                      /\ DictGet(after, h).market_pubkey = data.market_pubkey
                      /\ DictGet(after, h).orderbook_id = data.orderbook_id
                /\ (~zero /\ ~known /\ ~full) => ~DictHas(after, h)
                /\ \A k \in OrderHashes \ {h} :
                      /\ DictHas(after, k) <=> DictHas(before, k)
                      /\ DictGet(after, k) = DictGet(before, k)

\* an order created by an update sits beside one from a snapshot that a later
\* update has changed
C7_Witness ==
    /\ userOp = "created"
    /\ DictHas(ustate.orders, "h1") /\ DictGet(ustate.orders, "h1").remaining = "5"
    /\ DictGet(ustate.orders, "h1").maker_amount = "7"
    /\ DictHas(ustate.orders, "h2") /\ DictGet(ustate.orders, "h2").taker_amount = "0"

\* C22: from every reachable UserState, for the same market, the same
\* deposit mint (given or omitted) and the same outcomes, an order_update
\* carrying the balance inline and a standalone balance_update leave the
\* same balances.
C22_InlineEqualsStandalone ==
    \A o \in OrderUpdates, b \in UserBalanceUpdates, ob \in {None, "mk1:ob1"} :
        (o.balance # Nil /\ b.balance = o.balance) =>
            LET inline == [event_type    |-> "order_update",
                           order         |-> Some(o),
                           market_pubkey |-> b.market_pubkey,
                           orderbook_id  |-> ob,
                           deposit_mint  |-> b.deposit_mint,
                           timestamp     |-> b.timestamp]
            IN  apply_order_update(ustate, inline).balances
                    = apply_balance_update(ustate, b).balances

(***************************************************************************)
(* SpecConn: one LightconeWebSocketClient (client.py): a connect() call,   *)
(* the receive loop with its reconnects, the application subscribing,      *)
(* unsubscribing, pinging and taking events, and the server sending        *)
(* frames and closing sockets.  Steps are the stretches of code between    *)
(* two awaits that can suspend (recv, sleep, ws_connect, send).  What an   *)
(* inbound frame does to the replicas is the subject of SpecDispatch.      *)
(***************************************************************************)
\* the subscribe_* and unsubscribe_* calls one run makes
MaxCalls == 2

SubscribeCalls ==
    {BookUpdateSub({"m:ob1", "m:ob2"}), TradesSub({"m:ob1"}), UserSub("alice"),
     PriceHistorySub("m:ob1", "1m", TRUE), MarketSub("mk1")}

UnsubscribeCalls ==
    {BookUpdateSub({"m:ob1"}), TradesSub({"m:ob1"}), UserSub("alice"),
     PriceHistorySub("m:ob1", "1m", FALSE), MarketSub("mk1")}

CloseCodes == {1000, RateLimitCode}

\* self._ws: None ("none"), or a connection that is open or closed with a code
Socket(state, code) == [state |-> state, code |-> code]

NoTask == [pc |-> "none", reconnect_attempts |-> 0, pending |-> <<>>, end |-> "none"]

NoReplay == [state |-> "idle", registry |-> NewSubscriptionManager, attempted |-> {}, sent |-> {}]

\* LightconeWebSocketClient.__init__, with either setting of reconnect
ConnConstructed(r) ==
    /\ reconnect = r
    /\ connected = FALSE
    /\ running = FALSE
    /\ ws = Socket("none", 0)
    /\ awaiting_pong = FALSE
    /\ pong_late = FALSE
    /\ registry = NewSubscriptionManager
    /\ handler = NewMessageHandler
    /\ queue = <<>>
    /\ connecting = FALSE
    /\ task = NoTask
    /\ server = {}
    /\ calls = 0
    /\ queuedNow = <<>>
    /\ attemptsMade = 0
    /\ lost = FALSE
    /\ kept = {}
    /\ replay = NoReplay

ConnFrame == UNCHANGED <<bookVars, runVars, priceVars, userVars, dispatchVars, queueVars,
                         subsVars, connectVars, lifeVars, pongVars, histVars>>

\* _queue_event for each of events, in order
Queue(events) ==
    /\ queue' = queue_events(queue, events)
    /\ queuedNow' = events

\* _send: NotConnected without a socket or when not connected, SendFailed
\* when the socket's send raises, which it does on a closed socket
SendOutcome ==
    IF ws.state = "none" \/ ~connected THEN "NotConnected"
    ELSE IF ws.state = "closed" THEN "SendFailed"
    ELSE "sent"

\* _attempt_reconnect's first test, with > for >=
Exhausted_one_late(attempt) == attempt > MaxReconnectAttempts

\* _attempt_reconnect's first test: attempt >= max_reconnect_attempts
Exhausted(attempt) == attempt >= MaxReconnectAttempts

\* the close-code test of the receive loop, never true
IsRateLimited_never(code) == FALSE

\* the close-code test of the receive loop: e.code == 1008
IsRateLimited(code) == code = RateLimitCode

\* the loop leaves its while: the task's coroutine returns
LoopEnds(why) == task' = [task EXCEPT !.pc = "done", !.end = why]

\* the loop calls _attempt_reconnect(reconnect_attempts) after queueing
\* before: out of attempts it clears running and returns, the counter grows
\* and the loop goes round; otherwise Reconnecting is queued and it sleeps
EnterReconnect(before) ==
    IF Exhausted(task.reconnect_attempts)
    THEN /\ running' = FALSE
         /\ task' = [task EXCEPT !.pc = "top", !.reconnect_attempts = @ + 1, !.end = "exhausted"]
         /\ Queue(before)
    ELSE /\ running' = running
         /\ task' = [task EXCEPT !.pc = "sleep"]
         /\ Queue(before \o <<WsEvent("Reconnecting", task.reconnect_attempts + 1, "")>>)

\* history: the loop has found the link lost
NoteLoss ==
    /\ lost' = TRUE
    /\ kept' = IF lost THEN kept ELSE RegistryEntries(registry)

\* connect() up to its handshake: AlreadyConnected when connected
ConnectStart ==
    /\ task.pc = "none" /\ ~connecting
    /\ ~connected
    /\ connecting' = TRUE
    /\ queuedNow' = <<>>
    /\ UNCHANGED <<calls, reconnect, connected, running, ws, awaiting_pong, pong_late, registry,
                   handler, queue, task, server, attemptsMade, lost, kept, replay>>
    /\ ConnFrame

\* connect() after its handshake: on success the flags are set, the receive
\* task is created and Connected is queued; on failure ConnectionFailed is
\* raised to the caller
ConnectFinish(ok) ==
    /\ connecting
    /\ connecting' = FALSE
    /\ IF ok
       THEN /\ ws' = Socket("open", 0)
            /\ server' = {}
            /\ connected' = TRUE
            /\ running' = TRUE
            /\ pong_late' = FALSE
            /\ awaiting_pong' = FALSE
            /\ task' = [NoTask EXCEPT !.pc = "top"]
            /\ Queue(<<WsEvent("Connected", 0, "")>>)
       ELSE /\ queuedNow' = <<>>
            /\ UNCHANGED <<ws, server, connected, running, pong_late, awaiting_pong, task, queue>>
    /\ UNCHANGED <<calls, reconnect, registry, handler, attemptsMade, lost, kept, replay>>
    /\ ConnFrame

\* _receive_loop from the head of its while to the next await: the loop
\* ends when running is false or there is no socket; a pong timeout queues
\* PingTimeout, drops connected and reconnects or ends; otherwise recv()
LoopTop ==
    /\ task.pc = "top"
    /\ IF ~running
       THEN /\ task' = [task EXCEPT !.pc = "done",
                                    !.end = IF @ = "none" THEN "stopped" ELSE @]
            /\ queuedNow' = <<>>
            /\ UNCHANGED <<connected, running, queue, lost, kept>>
       ELSE IF ws.state = "none"
       THEN /\ LoopEnds("no_socket")
            /\ queuedNow' = <<>>
            /\ UNCHANGED <<connected, running, queue, lost, kept>>
       ELSE IF awaiting_pong /\ pong_late
       THEN /\ connected' = FALSE
            /\ NoteLoss
            /\ IF reconnect /\ running
               THEN EnterReconnect(<<WsEvent("Error", 0, "PingTimeout")>>)
               ELSE /\ Queue(<<WsEvent("Error", 0, "PingTimeout")>>)
                    /\ LoopEnds("pong_timeout")
                    /\ running' = running
       ELSE /\ task' = [task EXCEPT !.pc = "recv"]
            /\ queuedNow' = <<>>
            /\ UNCHANGED <<connected, running, queue, lost, kept>>
    /\ UNCHANGED <<calls, reconnect, ws, awaiting_pong, pong_late, registry, handler, connecting,
                   server, attemptsMade, replay>>
    /\ ConnFrame

InboundFrames == {"pong", "data", "malformed", "binary"}

\* recv() returns a frame: a text frame goes through handle_message and its
\* events are queued, a pong resetting the pong tracking; a frame
\* handle_message raises on ends in the loop's except Exception, which
\* queues an Error event; a binary frame is dropped.  The loop goes round.
RecvFrame(frame) ==
    /\ task.pc = "recv"
    /\ ws.state = "open"
    /\ task' = [task EXCEPT !.pc = "top"]
    /\ Queue(CASE frame = "pong"      -> <<WsEvent("Pong", 0, "")>>
               [] frame = "data"      -> <<WsEvent("Data", 0, "")>>
               [] frame = "malformed" -> <<WsEvent("Error", 0, "WebSocketError")>>
               [] frame = "binary"    -> <<>>)
    /\ awaiting_pong' = IF frame = "pong" THEN FALSE ELSE awaiting_pong
    /\ pong_late' = IF frame = "pong" THEN FALSE ELSE pong_late
    /\ UNCHANGED <<calls, reconnect, connected, running, ws, registry, handler, connecting,
                   server, attemptsMade, lost, kept, replay>>
    /\ ConnFrame

\* recv() raises ConnectionClosed: connected drops; code 1008 queues
\* RateLimited and ends the loop; any other code queues Disconnected and
\* reconnects or ends
RecvClosed ==
    /\ task.pc = "recv"
    /\ ws.state = "closed"
    /\ connected' = FALSE
    /\ IF IsRateLimited(ws.code)
       THEN /\ Queue(<<WsEvent("Error", 0, "RateLimited")>>)
            /\ LoopEnds("rate_limited")
            /\ UNCHANGED <<running, lost, kept>>
       ELSE /\ NoteLoss
            /\ IF reconnect /\ running
               THEN EnterReconnect(<<WsEvent("Disconnected", 0, "")>>)
               ELSE /\ Queue(<<WsEvent("Disconnected", 0, "")>>)
                    /\ LoopEnds("closed")
                    /\ running' = running
    /\ UNCHANGED <<calls, reconnect, ws, awaiting_pong, pong_late, registry, handler, connecting,
                   server, attemptsMade, replay>>
    /\ ConnFrame

\* _attempt_reconnect: the backoff sleep is over, ws_connect is called
SleepDone ==
    /\ task.pc = "sleep"
    /\ task' = [task EXCEPT !.pc = "handshake"]
    /\ attemptsMade' = attemptsMade + 1
    /\ queuedNow' = <<>>
    /\ UNCHANGED <<calls, reconnect, connected, running, ws, awaiting_pong, pong_late, registry,
                   handler, queue, connecting, server, lost, kept, replay>>
    /\ ConnFrame

HandshakeOutcomes == {"ok", "timeout", "error"}

\* the end of a successful attempt with the counter started afresh
ReplayOver_resets ==
    /\ Queue(<<WsEvent("Connected", 0, "")>>)
    /\ task' = [task EXCEPT !.pc = "top", !.reconnect_attempts = 0, !.pending = <<>>]

\* the replay is over: Connected is queued, _attempt_reconnect returns, the
\* loop counts the attempt and goes round
ReplayOver ==
    /\ Queue(<<WsEvent("Connected", 0, "")>>)
    /\ task' = [task EXCEPT !.pc = "top", !.reconnect_attempts = @ + 1, !.pending = <<>>]

\* _attempt_reconnect after ws_connect: a timeout returns and an error is
\* logged, both leaving self._ws as it was; on success the new socket is
\* stored, connected set, the pong tracking reset and _resubscribe entered
\* with the list get_all_subscriptions returns
HandshakeResult(outcome) ==
    /\ task.pc = "handshake"
    /\ IF outcome = "ok"
       THEN LET subs == get_all_subscriptions(registry)
            IN  /\ ws' = Socket("open", 0)
                /\ server' = {}
                /\ connected' = TRUE
                /\ pong_late' = FALSE
                /\ awaiting_pong' = FALSE
                /\ lost' = FALSE
                /\ replay' = [state      |-> IF subs = <<>> THEN "done" ELSE "running",
                              registry   |-> registry,
                              attempted  |-> {},
                              sent       |-> {}]
                /\ IF subs = <<>> THEN ReplayOver
                   ELSE /\ task' = [task EXCEPT !.pc = "resub", !.pending = subs]
                        /\ queuedNow' = <<>>
                        /\ queue' = queue
       ELSE /\ task' = [task EXCEPT !.pc = "top", !.reconnect_attempts = @ + 1]
            /\ queuedNow' = <<>>
            /\ UNCHANGED <<ws, server, connected, pong_late, awaiting_pong, lost, replay, queue>>
    /\ UNCHANGED <<calls, reconnect, running, registry, handler, connecting, attemptsMade, kept>>
    /\ ConnFrame

\* _resubscribe, one subscription of the list: _send_subscribe(to_params()),
\* a failure logged and the loop going on; after the last one Connected is
\* queued
ResubSend ==
    /\ task.pc = "resub"
    /\ LET sub  == Head(task.pending)
           sent == SendOutcome = "sent"
           last == Tail(task.pending) = <<>>
       IN  /\ server' = IF sent THEN server \cup Units(sub) ELSE server
           /\ replay' = [replay EXCEPT !.state = IF last THEN "done" ELSE "running",
                                       !.attempted = @ \cup {sub},
                                       !.sent = IF sent THEN @ \cup {sub} ELSE @]
           /\ IF last THEN ReplayOver
              ELSE /\ task' = [task EXCEPT !.pending = Tail(@)]
                   /\ queuedNow' = <<>>
                   /\ queue' = queue
    /\ UNCHANGED <<calls, reconnect, connected, running, ws, awaiting_pong, pong_late, registry,
                   handler, connecting, attemptsMade, lost, kept>>
    /\ ConnFrame

\* the server, or the network, closes the current socket
ServerClose(code) ==
    /\ ws.state = "open"
    /\ ws' = Socket("closed", code)
    /\ queuedNow' = <<>>
    /\ UNCHANGED <<calls, reconnect, connected, running, awaiting_pong, pong_late, registry, handler,
                   queue, connecting, task, server, attemptsMade, lost, kept, replay>>
    /\ ConnFrame

\* more than pong_timeout_secs have gone by since _last_pong was set
TimePasses ==
    /\ ~pong_late
    /\ pong_late' = TRUE
    /\ queuedNow' = <<>>
    /\ UNCHANGED <<calls, reconnect, connected, running, ws, awaiting_pong, registry, handler,
                   queue, connecting, task, server, attemptsMade, lost, kept, replay>>
    /\ ConnFrame

\* ping(): _awaiting_pong is set before _send, whatever _send does
Ping ==
    /\ awaiting_pong' = TRUE
    /\ queuedNow' = <<>>
    /\ UNCHANGED <<calls, reconnect, connected, running, ws, pong_late, registry, handler,
                   queue, connecting, task, server, attemptsMade, lost, kept, replay>>
    /\ ConnFrame

\* subscribe_* undoing replica and registry entry when _send raises
Subscribe_rolls_back(sub) ==
    /\ calls < MaxCalls
    /\ calls' = calls + 1
    /\ handler' = IF SendOutcome = "sent" THEN handler_init(handler, sub) ELSE handler
    /\ registry' = IF SendOutcome = "sent" THEN registry_add(registry, sub) ELSE registry
    /\ server' = IF SendOutcome = "sent" THEN server \cup Units(sub) ELSE server
    /\ queuedNow' = <<>>
    /\ UNCHANGED <<reconnect, connected, running, ws, awaiting_pong, pong_late, queue,
                   connecting, task, attemptsMade, lost, kept, replay>>
    /\ ConnFrame

\* subscribe_*(valid arguments): the replica is created, the subscription
\* recorded, then the frame sent; _send raising leaves both in place
Subscribe(sub) ==
    /\ calls < MaxCalls
    /\ calls' = calls + 1
    /\ handler' = handler_init(handler, sub)
    /\ registry' = registry_add(registry, sub)
    /\ server' = IF SendOutcome = "sent" THEN server \cup Units(sub) ELSE server
    /\ queuedNow' = <<>>
    /\ UNCHANGED <<reconnect, connected, running, ws, awaiting_pong, pong_late, queue,
                   connecting, task, attemptsMade, lost, kept, replay>>
    /\ ConnFrame

\* unsubscribe_*: the subscription is dropped from the registry, then the
\* frame sent
Unsubscribe(sub) ==
    LET gone(e) == \E u \in Units(sub) : SameChannel(e, u)
    IN  /\ calls < MaxCalls
        /\ calls' = calls + 1
        /\ handler' = handler_release(handler, sub)
        /\ registry' = registry_remove(registry, sub)
        /\ server' = IF SendOutcome = "sent" THEN {e \in server : ~gone(e)} ELSE server
        /\ kept' = {e \in kept : ~gone(e)}
        /\ queuedNow' = <<>>
        /\ UNCHANGED <<reconnect, connected, running, ws, awaiting_pong, pong_late, queue,
                       connecting, task, attemptsMade, lost, replay>>
        /\ ConnFrame

\* the application takes the oldest event off the queue
Consume ==
    /\ queue # <<>>
    /\ queue' = Tail(queue)
    /\ queuedNow' = <<>>
    /\ UNCHANGED <<calls, reconnect, connected, running, ws, awaiting_pong, pong_late, registry,
                   handler, connecting, task, server, attemptsMade, lost, kept, replay>>
    /\ ConnFrame

\* the steps of the receive task
LoopStep ==
    \/ LoopTop
    \/ RecvClosed
    \/ SleepDone
    \/ \E outcome \in HandshakeOutcomes : HandshakeResult(outcome)
    \/ ResubSend

ConnNext ==
    \/ ConnectStart
    \/ \E ok \in BOOLEAN : ConnectFinish(ok)
    \/ LoopTop
    \/ \E frame \in InboundFrames : RecvFrame(frame)
    \/ RecvClosed
    \/ SleepDone
    \/ \E outcome \in HandshakeOutcomes : HandshakeResult(outcome)
    \/ ResubSend
    \/ \E code \in CloseCodes : ServerClose(code)
    \/ TimePasses
    \/ Ping
    \/ \E sub \in SubscribeCalls : Subscribe(sub)
    \/ \E sub \in UnsubscribeCalls : Unsubscribe(sub)
    \/ Consume

\* C8: with reconnect enabled, once the loop has found the link lost and
\* while no attempt succeeds, connected stays false and the loop goes on to
\* its end; it never calls ws_connect more than max_reconnect_attempts
\* times; when it gives up exactly that many attempts have been made,
\* running and connected are false, and the ended task takes no further
\* step and makes no further attempt.
C8_ExhaustedReconnectsStop ==
    /\ [](attemptsMade <= MaxReconnectAttempts)
    /\ [](lost => ~connected)
    /\ [](task.end = "exhausted" =>
              /\ attemptsMade = MaxReconnectAttempts
              /\ task.pc \in {"top", "done"}
              /\ ~running
              /\ ~connected)
    /\ [][task.pc = "done" => (task' = task /\ attemptsMade' = attemptsMade)]_vars
    /\ ((lost /\ reconnect) ~> (~lost \/ (task.pc = "done" /\ task.end = "exhausted")))

\* the loop has ended after max_reconnect_attempts failed attempts, none
\* having succeeded
C8_Witness ==
    /\ reconnect
    /\ task.pc = "done" /\ task.end = "exhausted"
    /\ attemptsMade = MaxReconnectAttempts
    /\ replay.state = "idle"
    /\ ~running /\ ~connected

\* Connected has just been queued by a reconnect
JustReconnected == replay.state = "done" /\ queuedNow = <<WsEvent("Connected", 0, "")>>

\* C9 as stated: when a reconnect queues Connected, a subscribe frame has
\* been sent on the new socket for every entry of the registry, and for
\* every entry held at the loss and not removed since.
C9_AllSentBeforeConnected ==
    JustReconnected =>
        /\ RegistryEntries(registry) \subseteq server
        /\ kept \subseteq server

\* C9, amended: when a reconnect queues Connected, a subscribe has been
\* attempted for every entry the registry held when the replay started, and
\* so for every entry held at the loss and not removed since; if the new
\* socket is still open, every attempted frame was sent and the socket has
\* been asked for every entry of the registry.
C9_AllAttemptedBeforeConnected ==
    JustReconnected =>
        /\ \A e \in RegistryEntries(replay.registry) :
              \E f \in replay.attempted : e \in Units(f)
        /\ \A e \in kept : \E f \in replay.attempted : e \in Units(f)
        /\ ws.state = "open" =>
              /\ replay.sent = replay.attempted
              /\ RegistryEntries(registry) \subseteq server

\* a reconnect has replayed a registry of three entries, two of them grouped
\* in one book_update frame, on a socket that is still open
C9_Witness ==
    /\ JustReconnected
    /\ ws.state = "open"
    /\ Cardinality(RegistryEntries(registry)) >= 3
    /\ Cardinality(replay.sent) >= 2
    /\ kept = RegistryEntries(registry)

C15_PongTimeoutDeclaresDead ==
    (awaiting_pong /\ pong_late /\ connected /\ running /\ ws.state = "open" /\ task.pc = "recv")
        ~> (~connected \/ ~awaiting_pong)

\* C28: the attempt counter of the receive loop never goes down and grows
\* by one when an attempt is over, whether it succeeded or failed; the
\* loop calls ws_connect at most max_reconnect_attempts times; and each
\* Reconnecting event carries the number of attempts made before it plus
\* one, so the events carry 1, 2, ... in that order.
C28_AttemptsCountedOnce ==
    /\ [](attemptsMade <= MaxReconnectAttempts)
    /\ [][/\ task'.reconnect_attempts >= task.reconnect_attempts
          /\ (task.pc \in {"handshake", "resub"} /\ task'.pc = "top")
                => task'.reconnect_attempts = task.reconnect_attempts + 1
          /\ \A i \in 1..Len(queuedNow') :
                queuedNow'[i].type = "Reconnecting"
                   => (/\ queuedNow'[i].attempt = attemptsMade + 1
                       /\ queuedNow'[i].attempt = task.reconnect_attempts + 1
                       /\ task'.pc = "sleep")]_vars

\* Reconnecting number 2 has just been queued after the first attempt
\* succeeded
C28_Witness ==
    /\ queuedNow # <<>>
    /\ queuedNow[Len(queuedNow)] = WsEvent("Reconnecting", 2, "")
    /\ replay.state = "done"
    /\ attemptsMade = 1
    /\ task.pc = "sleep"

\* C29: a valid subscribe_* call leaves its entries in the registry and its
\* replica in the handler whether or not the frame could be sent, and made
\* while the client is not connected it raises NotConnected and sends
\* nothing; a reconnect whose handshake succeeds replays the registry as it
\* then stands, so that when it queues Connected a subscribe has been
\* attempted for every such entry, and sent if the new socket is still
\* open.
C29_SubscribeSurvivesFailedSend ==
    /\ [][\A sub \in SubscribeCalls :
             Subscribe(sub) =>
                /\ Units(sub) \subseteq RegistryEntries(registry')
                /\ handler' = handler_init(handler, sub)
                /\ ~connected => (SendOutcome = "NotConnected" /\ server' = server)]_vars
    /\ [][(task.pc = "handshake" /\ connected') =>
             /\ replay'.registry = registry
             /\ \A e \in RegistryEntries(registry) :
                   \E i \in 1..Len(task'.pending) : e \in Units(task'.pending[i])]_vars
    /\ [](JustReconnected =>
             /\ \A e \in RegistryEntries(replay.registry) :
                   \E f \in replay.attempted : e \in Units(f)
             /\ ws.state = "open" =>
                   (RegistryEntries(replay.registry) \cap RegistryEntries(registry))
                        \subseteq server)

\* a reconnect has just queued Connected on a socket that is still open,
\* after sending the subscribe for an entry recorded while the link was
\* down
C29_Witness ==
    /\ JustReconnected
    /\ ws.state = "open"
    /\ \E e \in RegistryEntries(replay.registry) \ kept : e \in server

(***************************************************************************)
(* SpecDispatch: a connected client whose receive loop is handed           *)
(* book_update frames (handle_message, _handle_book_update) while the      *)
(* application subscribes to book updates.  server records the subscribe   *)
(* frames the client has sent.                                             *)
(***************************************************************************)
DispatchLevels ==
    {[bids |-> <<>>, asks |-> <<>>],
     [bids |-> <<[price |-> "1.0", size |-> "5"]>>, asks |-> <<[price |-> "3", size |-> "5"]>>]}

\* the data of a book_update frame; the last one lacks orderbook_id, which
\* BookUpdateData.from_dict requires
DispatchFrames ==
    {[orderbook_id |-> id, timestamp |-> "t1", seq |-> seq, bids |-> l.bids, asks |-> l.asks,
      is_snapshot |-> snap, resync |-> resync] :
        id \in OrderbookIds, seq \in 0..MaxSeq, l \in DispatchLevels,
        snap \in BOOLEAN, resync \in BOOLEAN}
    \cup {[timestamp |-> "t1"]}

\* history: what a frame is to the replicas it arrives at
FrameKind(obs, data) ==
    IF "orderbook_id" \notin DOMAIN data THEN "malformed"
    ELSE IF data.resync THEN "resync"
    ELSE IF data.is_snapshot THEN "snapshot"
    ELSE IF data.seq # init_orderbook(obs, data.orderbook_id)[data.orderbook_id].expected_seq
    THEN "gap"
    ELSE "delta"

\* no frame handled yet, no replica
DispatchIdle ==
    /\ orderbooks = [id \in {} |-> NewOrderbook(id)]
    /\ emitted = <<>>
    /\ dispatched = "none"

\* the client after connect(), its receive loop waiting in recv()
DispatchInit ==
    /\ DispatchIdle
    /\ reconnect = TRUE
    /\ connected = TRUE
    /\ running = TRUE
    /\ ws = Socket("open", 0)
    /\ awaiting_pong = FALSE
    /\ pong_late = FALSE
    /\ registry = NewSubscriptionManager
    /\ handler = NewMessageHandler
    /\ queue = <<WsEvent("Connected", 0, "")>>
    /\ connecting = FALSE
    /\ task = [NoTask EXCEPT !.pc = "recv"]
    /\ server = {}
    /\ calls = 0
    /\ queuedNow = <<>>
    /\ attemptsMade = 0
    /\ lost = FALSE
    /\ kept = {}
    /\ replay = NoReplay

DispatchFrame == UNCHANGED <<bookVars, runVars, priceVars, userVars, queueVars, subsVars,
                             connectVars, lifeVars, pongVars, histVars>>

\* the receive loop takes a book_update frame: handle_message hands it to
\* _handle_book_update and the loop queues the events returned; nothing is
\* sent
DispatchBookUpdate(data) ==
    /\ task.pc = "recv" /\ ws.state = "open"
    /\ LET r == handle_book_update(orderbooks, data)
       IN  /\ orderbooks' = r.orderbooks
           /\ emitted' = r.events
    /\ dispatched' = FrameKind(orderbooks, data)
    /\ UNCHANGED connVars
    /\ DispatchFrame

\* a trade as TradeData.from_dict takes it
TradeFrame ==
    [orderbook_id |-> "m:ob1", price |-> "1.0", size |-> "5", side |-> "buy",
     timestamp |-> "t1", trade_id |-> "tr1"]

\* the text frames that are no well-formed book_update: not JSON, JSON that
\* is no object, objects without type or data, a pong, a trade with and
\* without its fields, an unknown type
OtherTexts ==
    {[json |-> "invalid"], [json |-> "array"], [json |-> "null"],
     [json |-> "object"],
     [json |-> "object", type |-> "book_update"],
     [json |-> "object", type |-> "pong"],
     [json |-> "object", type |-> "trades", data |-> TradeFrame],
     [json |-> "object", type |-> "trades", data |-> [orderbook_id |-> "m:ob1"]],
     [json |-> "object", type |-> "news", data |-> [headline |-> "x"]]}

TextFrames ==
    OtherTexts \cup {[json |-> "object", type |-> "book_update", data |-> data] :
                        data \in DispatchFrames}

\* the receive loop takes a text frame that is no well-formed book_update:
\* the events handle_message returns are queued; when it raises, the
\* loop's `except Exception` queues Error(WebSocketError); either way the
\* loop goes round to the next recv()
DispatchMessage(text) ==
    /\ task.pc = "recv" /\ ws.state = "open"
    /\ LET r == handle_message(orderbooks, text)
       IN  /\ orderbooks' = r.orderbooks
           /\ emitted' = IF r.raised = NoRaise THEN r.events
                         ELSE <<ErrorEvent("WebSocketError")>>
           /\ dispatched' = IF r.raised = NoRaise THEN "message" ELSE "raised"
           /\ awaiting_pong' = IF \E i \in 1..Len(r.events) : r.events[i].type = "Pong"
                               THEN FALSE ELSE awaiting_pong
    /\ UNCHANGED <<calls, reconnect, connected, running, ws, pong_late, registry, handler, queue,
                   connecting, task, server, queuedNow, attemptsMade, lost, kept, replay>>
    /\ DispatchFrame

\* subscribe_book_updates(ids): init_orderbook for each id, the ids
\* recorded in the registry, the subscribe frame sent
DispatchSubscribe(ids) ==
    /\ orderbooks' = [id \in DOMAIN orderbooks \cup ids |->
                         IF id \in DOMAIN orderbooks THEN orderbooks[id] ELSE NewOrderbook(id)]
    /\ handler' = handler_init(handler, BookUpdateSub(ids))
    /\ registry' = registry_add(registry, BookUpdateSub(ids))
    /\ server' = IF SendOutcome = "sent" THEN server \cup Units(BookUpdateSub(ids)) ELSE server
    /\ emitted' = <<>>
    /\ dispatched' = "subscribe"
    /\ UNCHANGED <<calls, reconnect, connected, running, ws, awaiting_pong, pong_late, queue,
                   connecting, task, queuedNow, attemptsMade, lost, kept, replay>>
    /\ DispatchFrame

DispatchNext ==
    \/ \E data \in DispatchFrames : DispatchBookUpdate(data)
    \/ \E ids \in {{"m:ob1"}, {"m:ob1", "m:ob2"}} : DispatchSubscribe(ids)
    \/ \E text \in OtherTexts : DispatchMessage(text)

\* a delta that is no resync and whose seq is not the one the addressed
\* replica expects (a replica that does not exist yet expects 0)
GapDelta(data) == FrameKind(orderbooks, data) = "gap"

\* C4: whatever replicas the handler holds, a delta whose seq differs from
\* the addressed replica's expected_seq yields exactly one ResyncRequired
\* event for that orderbook and no other event, leaves that replica without
\* bids, without asks and with has_snapshot false, and leaves every other
\* replica as it was; and the step of the client that queues a
\* ResyncRequired event sends no subscribe frame.
C4_GapClearsAndAsksResync ==
    /\ [](\A data \in DispatchFrames :
             GapDelta(data) =>
                LET r  == handle_book_update(orderbooks, data)
                    id == data.orderbook_id
                IN  /\ r.events = <<BookEvent("ResyncRequired", id, FALSE)>>
                    /\ DOMAIN r.orderbooks = DOMAIN orderbooks \cup {id}
                    /\ r.orderbooks[id].bids = <<>>
                    /\ r.orderbooks[id].asks = <<>>
                    /\ r.orderbooks[id].has_snapshot = FALSE
                    /\ \A other \in DOMAIN orderbooks \ {id} :
                          r.orderbooks[other] = orderbooks[other])
    /\ [][(\E i \in 1..Len(emitted') : emitted'[i].type = "ResyncRequired")
             => (server' = server /\ registry' = registry)]_vars

\* a gap delta has just cleared a replica that held levels, beside another
\* replica that still holds its own, on a client that has subscribed
C4_Witness ==
    /\ dispatched = "gap"
    /\ emitted = <<BookEvent("ResyncRequired", "m:ob1", FALSE)>>
    /\ "m:ob2" \in DOMAIN orderbooks
    /\ orderbooks["m:ob1"].bids = <<>> /\ ~orderbooks["m:ob1"].has_snapshot
    /\ orderbooks["m:ob2"].bids # <<>> /\ orderbooks["m:ob2"].has_snapshot
    /\ server # {}

\* C18: a book_update frame with resync = true, whatever levels, seq and
\* snapshot flag it carries and whatever replicas the handler holds, yields
\* exactly one ResyncRequired event for its orderbook and leaves every
\* replica as it was: the addressed one keeps its bids, asks, expected_seq
\* and has_snapshot, and none is created when there was none.
C18_ResyncTouchesNothing ==
    \A data \in DispatchFrames :
        FrameKind(orderbooks, data) = "resync" =>
            LET r == handle_book_update(orderbooks, data)
            IN  /\ r.events = <<BookEvent("ResyncRequired", data.orderbook_id, FALSE)>>
                /\ r.orderbooks = orderbooks

\* a resync frame for an orderbook without replica has just been handled
\* beside a replica that holds a snapshot, and no replica was created
C18_Witness ==
    /\ dispatched = "resync"
    /\ emitted = <<BookEvent("ResyncRequired", "m:ob2", FALSE)>>
    /\ "m:ob2" \notin DOMAIN orderbooks
    /\ "m:ob1" \in DOMAIN orderbooks
    /\ orderbooks["m:ob1"].has_snapshot /\ orderbooks["m:ob1"].bids # <<>>

\* a text frame that is no well-formed message: not JSON, JSON that is no
\* object, or a book_update or trades object whose data lacks a required
\* field
Malformed(text) ==
    \/ text.json # "object"
    \/ /\ "type" \in DOMAIN text
       /\ LET data == IF "data" \in DOMAIN text THEN text.data ELSE [x \in {} |-> None]
          IN  \/ text.type = "book_update" /\ "orderbook_id" \notin DOMAIN data
              \/ /\ text.type = "trades"
                 /\ ~({"orderbook_id", "price", "size", "side", "timestamp", "trade_id"}
                        \subseteq DOMAIN data)

\* C16: whatever replicas the handler holds, handle_message raises on no
\* text frame, and for every frame that is no well-formed message it
\* returns exactly one Error event carrying MessageParseError and leaves
\* every replica as it was.
C16_HandleMessageNeverRaises ==
    \A text \in TextFrames :
        LET r == handle_message(orderbooks, text)
        IN  /\ r.raised = NoRaise
            /\ Malformed(text) =>
                  /\ r.events = <<ErrorEvent("MessageParseError")>>
                  /\ r.orderbooks = orderbooks

\* C25: a replica the handler holds has price levels only while its
\* has_snapshot is true: a delta never puts levels into a replica that has
\* had no snapshot since it was created or last cleared.
C25_LevelsOnlyWithSnapshot ==
    \A id \in DOMAIN orderbooks :
        HoldsLevels(orderbooks[id]) => orderbooks[id].has_snapshot

(***************************************************************************)
(* SpecQueue: the event queue of one client between its producer           *)
(* (_queue_event, called by connect() and the receive loop) and its        *)
(* consumer (__anext__ / recv taking the oldest event).  The events are    *)
(* numbered in their attempt field so that they can be told apart.         *)
(***************************************************************************)
\* the events one run produces
MaxProduced == 5

QueueIdle ==
    /\ produced = <<>>
    /\ consumed = <<>>

QueueFrame == UNCHANGED <<bookVars, runVars, priceVars, userVars, dispatchVars, subsVars,
                          connectVars, lifeVars, pongVars, histVars>>

\* _queue_event(event): it holds no await that can suspend, so the producer
\* goes through it in one step
QueueProduce(type) ==
    /\ Len(produced) < MaxProduced
    /\ LET event == WsEvent(type, Len(produced) + 1, "")
       IN  /\ queue' = queue_event(queue, event)
           /\ queuedNow' = <<event>>
           /\ produced' = Append(produced, event)
    /\ UNCHANGED <<consumed, calls, reconnect, connected, running, ws, awaiting_pong, pong_late,
                   registry, handler, connecting, task, server, attemptsMade, lost, kept, replay>>
    /\ QueueFrame

\* self._event_queue.get() returning to a consumer
QueueConsume ==
    /\ queue # <<>>
    /\ queue' = Tail(queue)
    /\ consumed' = Append(consumed, Head(queue))
    /\ queuedNow' = <<>>
    /\ UNCHANGED <<produced, calls, reconnect, connected, running, ws, awaiting_pong, pong_late,
                   registry, handler, connecting, task, server, attemptsMade, lost, kept, replay>>
    /\ QueueFrame

QueueNext ==
    \/ \E type \in {"Pong", "Reconnecting"} : QueueProduce(type)
    \/ QueueConsume

RECURSIVE IsSubsequence(_, _)
\* s can be had from t by leaving elements out
IsSubsequence(s, t) ==
    IF s = <<>> THEN TRUE
    ELSE IF t = <<>> THEN FALSE
    ELSE IF Head(s) = Head(t) THEN IsSubsequence(Tail(s), Tail(t))
    ELSE IsSubsequence(s, Tail(t))

ArgChars ==
    [a \in {"", "  ", "m:ob1", "m:ob2", "ob1", "alice", "bob", "mk1"} |->
        CASE a = ""      -> <<>>
          [] a = "  "    -> <<" ", " ">>
          [] a = "m:ob1" -> <<"m", ":", "o", "b", "1">>
          [] a = "m:ob2" -> <<"m", ":", "o", "b", "2">>
          [] a = "ob1"   -> <<"o", "b", "1">>
          [] a = "alice" -> <<"a", "l", "i", "c", "e">>
          [] a = "bob"   -> <<"b", "o", "b">>
          [] a = "mk1"   -> <<"m", "k", "1">>]

\* str.strip() on the characters of a string
Strip(cs) ==
    LET solid == {i \in 1..Len(cs) : cs[i] # " "}
    IN  IF solid = {} THEN <<>>
        ELSE SubSeq(cs, CHOOSE i \in solid : \A j \in solid : i <= j,
                        CHOOSE i \in solid : \A j \in solid : i >= j)

\* `not s or not s.strip()`
IsBlank(a) == ArgChars[a] = <<>> \/ Strip(ArgChars[a]) = <<>>

\* `":" not in ob_id`
LacksColon(a) == \A i \in 1..Len(ArgChars[a]) : ArgChars[a][i] # ":"

\* valid_resolutions of subscribe_price_history
ValidResolutions == {"1m", "5m", "15m", "1h", "4h", "1d"}

\* the calls an application makes
SubsCalls ==
    {[method |-> "subscribe_book_updates", orderbook_ids |-> ids] :
        ids \in {<<>>, <<"m:ob1">>, <<"m:ob1", "m:ob2">>, <<"m:ob1", "  ">>, <<"">>, <<"ob1">>}}
    \cup {[method |-> "subscribe_trades", orderbook_ids |-> ids] :
        ids \in {<<>>, <<"m:ob1">>, <<"ob1">>, <<"m:ob1", "">>}}
    \cup {[method |-> "subscribe_user", user |-> u] : u \in {"alice", "bob", "", "  "}}
    \cup {[method |-> "subscribe_price_history", orderbook_id |-> ob, resolution |-> res,
           include_ohlcv |-> TRUE] : ob \in {"m:ob1", ""}, res \in {"1m", "1h", "2m", ""}}
    \cup {[method |-> "subscribe_market", market_pubkey |-> m] : m \in {"mk1", "", "  "}}

NoCall == [method |-> "none"]

\* the checks of subscribe_* with the resolution test left out
Validate_any_resolution(call) ==
    CASE call.method = "subscribe_book_updates" ->
            IF \/ call.orderbook_ids = <<>>
               \/ \E i \in 1..Len(call.orderbook_ids) :
                     IsBlank(call.orderbook_ids[i]) \/ LacksColon(call.orderbook_ids[i])
            THEN "ValueError" ELSE "ok"
      [] call.method = "subscribe_trades" ->
            IF \/ call.orderbook_ids = <<>>
               \/ \E i \in 1..Len(call.orderbook_ids) : IsBlank(call.orderbook_ids[i])
            THEN "ValueError" ELSE "ok"
      [] call.method = "subscribe_user" ->
            IF IsBlank(call.user) THEN "ValueError" ELSE "ok"
      [] call.method = "subscribe_price_history" ->
            IF IsBlank(call.orderbook_id) THEN "ValueError" ELSE "ok"
      [] call.method = "subscribe_market" ->
            IF IsBlank(call.market_pubkey) THEN "ValueError" ELSE "ok"

\* the checks subscribe_* makes before it touches anything: ValueError for
\* an empty list, a blank id, a book id without ":", a blank user or market,
\* a resolution outside valid_resolutions
Validate(call) ==
    CASE call.method = "subscribe_book_updates" ->
            IF \/ call.orderbook_ids = <<>>
               \/ \E i \in 1..Len(call.orderbook_ids) :
                     IsBlank(call.orderbook_ids[i]) \/ LacksColon(call.orderbook_ids[i])
            THEN "ValueError" ELSE "ok"
      [] call.method = "subscribe_trades" ->
            IF \/ call.orderbook_ids = <<>>
               \/ \E i \in 1..Len(call.orderbook_ids) : IsBlank(call.orderbook_ids[i])
            THEN "ValueError" ELSE "ok"
      [] call.method = "subscribe_user" ->
            IF IsBlank(call.user) THEN "ValueError" ELSE "ok"
      [] call.method = "subscribe_price_history" ->
            IF IsBlank(call.orderbook_id) \/ call.resolution \notin ValidResolutions
            THEN "ValueError" ELSE "ok"
      [] call.method = "subscribe_market" ->
            IF IsBlank(call.market_pubkey) THEN "ValueError" ELSE "ok"

\* the subscription a call records and sends (book_update_params, ...)
CallSubscription(call) ==
    CASE call.method = "subscribe_book_updates" ->
            BookUpdateSub({call.orderbook_ids[i] : i \in 1..Len(call.orderbook_ids)})
      [] call.method = "subscribe_trades" ->
            TradesSub({call.orderbook_ids[i] : i \in 1..Len(call.orderbook_ids)})
      [] call.method \in {"subscribe_user", "unsubscribe_user"} -> UserSub(call.user)
      [] call.method = "subscribe_price_history" ->
            PriceHistorySub(call.orderbook_id, call.resolution, call.include_ohlcv)
      [] call.method = "subscribe_market" -> MarketSub(call.market_pubkey)

\* init_user_state's `if user not in self._user_states`
init_user_state(states, user) ==
    IF user \in DOMAIN states THEN states
    ELSE [u \in DOMAIN states \cup {user} |->
             IF u = user THEN NewUserState(user) ELSE states[u]]

\* the user events a frame can carry
UserFrames ==
    {data \in UserSnapshots : data.balances = <<>> /\ Len(data.orders) <= 1}

\* _handle_user_event: the event goes to the replica of _subscribed_user,
\* "unknown" when there is none, if that replica exists
handle_user_event(h, states, data) ==
    LET user == IF h.subscribed_user # None THEN h.subscribed_user ELSE "unknown"
    IN  IF user \in DOMAIN states
        THEN [states EXCEPT ![user] = user_apply_event(@, data)]
        ELSE states

SubsIdle ==
    /\ userStates = [u \in {} |-> NewUserState(u)]
    /\ subCall = NoCall
    /\ subRaised = "none"

SubsFrame == UNCHANGED <<bookVars, runVars, priceVars, userVars, dispatchVars, queueVars,
                         connectVars, lifeVars, pongVars, histVars>>

\* subscribe_*(arguments): the checks first; then the replica is created,
\* the subscription recorded and the frame sent, _send raising to the
\* caller with both in place
SubsSubscribe(call) ==
    /\ calls < MaxCalls
    /\ calls' = calls + 1
    /\ subCall' = call
    /\ IF Validate(call) = "ValueError"
       THEN /\ subRaised' = "ValueError"
            /\ UNCHANGED <<handler, registry, server, userStates>>
       ELSE LET sub == CallSubscription(call)
            IN  /\ handler' = handler_init(handler, sub)
                /\ userStates' = IF sub.type_ = "user" THEN init_user_state(userStates, sub.user)
                                 ELSE userStates
                /\ registry' = registry_add(registry, sub)
                /\ server' = IF SendOutcome = "sent" THEN server \cup Units(sub) ELSE server
                /\ subRaised' = IF SendOutcome = "sent" THEN "none" ELSE SendOutcome
    /\ queuedNow' = <<>>
    /\ UNCHANGED <<reconnect, connected, running, ws, awaiting_pong, pong_late, queue,
                   connecting, task, attemptsMade, lost, kept, replay>>
    /\ SubsFrame

\* unsubscribe_user(user): clear_subscribed_user, remove_user, then the frame
SubsUnsubscribeUser(user) ==
    LET sub == UserSub(user)
    IN  /\ calls < MaxCalls
        /\ calls' = calls + 1
        /\ subCall' = [method |-> "unsubscribe_user", user |-> user]
        /\ handler' = handler_release(handler, sub)
        /\ registry' = registry_remove(registry, sub)
        /\ server' = IF SendOutcome = "sent" THEN server \ {sub} ELSE server
        /\ subRaised' = IF SendOutcome = "sent" THEN "none" ELSE SendOutcome
        /\ queuedNow' = <<>>
        /\ UNCHANGED <<userStates, reconnect, connected, running, ws, awaiting_pong, pong_late,
                       queue, connecting, task, attemptsMade, lost, kept, replay>>
        /\ SubsFrame

\* the receive loop takes a user frame: _handle_user_event applies it and
\* the UserUpdate event is queued
SubsUserFrame(data) ==
    /\ task.pc = "recv" /\ ws.state = "open"
    /\ userStates' = handle_user_event(handler, userStates, data)
    /\ Queue(<<WsEvent("UserUpdate", 0, "")>>)
    /\ UNCHANGED <<subCall, subRaised, calls, reconnect, connected, running, ws, awaiting_pong,
                   pong_late, registry, handler, connecting, task, server, attemptsMade, lost,
                   kept, replay>>
    /\ SubsFrame

SubsNext ==
    \/ \E call \in SubsCalls : SubsSubscribe(call)
    \/ \E user \in {"alice", "bob"} : SubsUnsubscribeUser(user)
    \/ \E data \in UserFrames : SubsUserFrame(data)

\* a string that is empty or holds nothing but spaces
BlankArg(a) == \A i \in 1..Len(ArgChars[a]) : ArgChars[a][i] = " "

\* the calls the claim names: an empty id list, a blank id, a blank user, a
\* blank market, a resolution that is none of 1m, 5m, 15m, 1h, 4h, 1d
InvalidCall(call) ==
    \/ /\ call.method \in {"subscribe_book_updates", "subscribe_trades"}
       /\ \/ call.orderbook_ids = <<>>
          \/ \E i \in 1..Len(call.orderbook_ids) : BlankArg(call.orderbook_ids[i])
    \/ call.method = "subscribe_user" /\ BlankArg(call.user)
    \/ call.method = "subscribe_market" /\ BlankArg(call.market_pubkey)
    \/ /\ call.method = "subscribe_price_history"
       /\ \/ BlankArg(call.orderbook_id)
          \/ call.resolution \notin {"1m", "5m", "15m", "1h", "4h", "1d"}

\* C17: right after a subscribe_user(B) that was accepted, whatever was
\* subscribed before, the registry holds B as its only user entry, the list
\* a reconnect replays holds a user subscribe for B and for nobody else,
\* and any inbound user frame leaves every replica but B's as it was; and
\* the registry never holds more than one user.
C17_LastUserWins ==
    /\ Cardinality(registry.users) <= 1
    /\ (subCall.method = "subscribe_user" /\ subRaised # "ValueError") =>
          LET replayed == get_all_subscriptions(registry)
          IN  /\ registry.users = {subCall.user}
              /\ {replayed[i] : i \in {j \in 1..Len(replayed) : replayed[j].type_ = "user"}}
                    = {UserSub(subCall.user)}
              /\ \A data \in UserFrames :
                    \A u \in DOMAIN userStates \ {subCall.user} :
                        handle_user_event(handler, userStates, data)[u] = userStates[u]

\* C20: a subscribe_* call with an empty id list, a blank id, a blank user,
\* a blank market or a resolution outside the six allowed raises ValueError
\* to its caller and sends no frame, queues no event and leaves the
\* registry and every replica as they were.
C20_InvalidSubscribeChangesNothing ==
    [][(calls' # calls /\ subCall'.method # "unsubscribe_user" /\ InvalidCall(subCall')) =>
          /\ subRaised' = "ValueError"
          /\ server' = server
          /\ queue' = queue
          /\ registry' = registry
          /\ handler' = handler
          /\ userStates' = userStates]_vars

\* a price-history subscribe with resolution "2m" has just been refused on a
\* client that holds a book subscription and its replica
C20_Witness ==
    /\ subRaised = "ValueError"
    /\ subCall = [method |-> "subscribe_price_history", orderbook_id |-> "m:ob1",
                  resolution |-> "2m", include_ohlcv |-> TRUE]
    /\ registry.book_updates = {"m:ob1"}
    /\ registry.price_history = {}
    /\ handler.orderbooks = {"m:ob1"} /\ handler.price_histories = {}
    /\ server = {BookUpdateSub({"m:ob1"})}

(***************************************************************************)
(* SpecConnect: several _connect() calls on one client instance            *)
(* (client.py), each suspended in ws_connect between its two steps, with   *)
(* a peer that accepts or fails the handshake and then stays silent, so    *)
(* that every socket opened stays open and every receive task created      *)
(* waits in recv().                                                        *)
(***************************************************************************)
\* the _connect() calls made on the instance
MaxCallers == 3

Callers == 1..MaxCallers

ConnectOutcomes == {"ok", "timeout", "error", "invalid_uri"}

ConnectIdle ==
    /\ callers = [c \in Callers |-> "idle"]
    /\ opened = 0
    /\ started = 0

LifeIdle ==
    /\ disc = [pc |-> "idle", returned |-> 0]
    /\ consumer = "idle"

ConnectCallFrame ==
    UNCHANGED <<bookVars, runVars, priceVars, userVars, dispatchVars, queueVars, subsVars,
                lifeVars, pongVars, histVars>>

\* the test _connect makes under the state lock: `if self._connected`
AlreadyConnected == connected

\* _connect() up to ws_connect: AlreadyConnectedError when the test says so,
\* otherwise the call suspends in the handshake
CallerStart(c) ==
    /\ callers[c] = "idle"
    /\ callers' = [callers EXCEPT ![c] = IF AlreadyConnected THEN "AlreadyConnected"
                                         ELSE "handshake"]
    /\ queuedNow' = <<>>
    /\ UNCHANGED <<opened, started, calls, reconnect, connected, running, ws, awaiting_pong,
                   pong_late, registry, handler, queue, connecting, task, server, attemptsMade,
                   lost, kept, replay>>
    /\ ConnectCallFrame

\* _connect() after ws_connect: the socket is stored, the flags are set, a
\* receive task is created and stored and Connected is queued; a timeout or
\* an error raises ConnectionFailedError, an InvalidURI InvalidUrlError
CallerFinish(c, outcome) ==
    /\ callers[c] = "handshake"
    /\ IF outcome = "ok"
       THEN /\ callers' = [callers EXCEPT ![c] = "returned"]
            /\ ws' = Socket("open", 0)
            /\ server' = {}
            /\ opened' = opened + 1
            /\ connected' = TRUE
            /\ running' = TRUE
            /\ pong_late' = FALSE
            /\ awaiting_pong' = FALSE
            /\ task' = [NoTask EXCEPT !.pc = "top"]
            /\ started' = started + 1
            /\ Queue(<<WsEvent("Connected", 0, "")>>)
       ELSE /\ callers' = [callers EXCEPT ![c] = IF outcome = "invalid_uri" THEN "InvalidUrl"
                                                 ELSE "ConnectionFailed"]
            /\ queuedNow' = <<>>
            /\ UNCHANGED <<ws, server, opened, connected, running, pong_late, awaiting_pong,
                           task, started, queue>>
    /\ UNCHANGED <<calls, reconnect, registry, handler, connecting, attemptsMade, lost, kept,
                   replay>>
    /\ ConnectCallFrame

ConnectNext ==
    \/ \E c \in Callers : CallerStart(c)
    \/ \E c \in Callers, outcome \in ConnectOutcomes : CallerFinish(c, outcome)
    \/ LoopTop

\* C11: one instance never has more than one socket opened by connect nor
\* more than one receive task; and a _connect() call that starts while the
\* instance is connected, or while another _connect() call on it has not
\* finished its handshake, fails with AlreadyConnected.
C11_OneLiveConnection ==
    /\ [](opened <= 1 /\ started <= 1)
    /\ [][\A c \in Callers :
            (/\ callers[c] = "idle" /\ callers'[c] # "idle"
             /\ (connected \/ \E o \in Callers \ {c} : callers[o] = "handshake"))
                => callers'[c] = "AlreadyConnected"]_vars

(***************************************************************************)
(* SpecLife: one client from connect() to disconnect(): the receive loop   *)
(* and its reconnects as in SpecConn, disconnect() calls, which suspend    *)
(* while an open socket closes, and one consumer iterating over the        *)
(* client (__anext__).                                                     *)
(***************************************************************************)
\* the disconnect() calls one run makes
MaxDisconnects == 2

LifeFrame ==
    UNCHANGED <<bookVars, runVars, priceVars, userVars, dispatchVars, queueVars, subsVars,
                connectVars, pongVars, histVars>>

\* MessageHandler.clear_all: the three replica dicts are emptied
clear_all(h) == [h EXCEPT !.orderbooks = {}, !.user_states = {}, !.price_histories = {}]

\* disconnect() from `self._ws = None` on: the receive task, if there is
\* one, is cancelled, awaited and forgotten (pc "gone"; a task that had
\* ended keeps how it ended), then the replicas and the registry are cleared
Teardown ==
    /\ ws' = Socket("none", 0)
    /\ task' = IF task.pc \in {"none", "gone"} THEN task
               ELSE [task EXCEPT !.pc = "gone",
                                 !.end = IF task.pc = "done" THEN @ ELSE "cancelled"]
    /\ handler' = clear_all(handler)
    /\ registry' = NewSubscriptionManager
    /\ disc' = [pc |-> "idle", returned |-> disc.returned + 1]

\* disconnect() up to `await self._ws.close()`: both flags are dropped; an
\* open socket starts its closing handshake and the call suspends; without
\* socket, or with one that is closed already, the call runs to its end
DisconnectStart ==
    /\ disc.pc = "idle"
    /\ disc.returned < MaxDisconnects
    /\ running' = FALSE
    /\ connected' = FALSE
    /\ IF ws.state = "open"
       THEN /\ ws' = Socket("closed", 1000)
            /\ disc' = [disc EXCEPT !.pc = "closing"]
            /\ UNCHANGED <<task, handler, registry>>
       ELSE Teardown
    /\ queuedNow' = <<>>
    /\ UNCHANGED <<consumer, calls, reconnect, awaiting_pong, pong_late, queue, connecting,
                   server, attemptsMade, lost, kept, replay>>
    /\ LifeFrame

\* disconnect() after `await self._ws.close()`
DisconnectFinish ==
    /\ disc.pc = "closing"
    /\ Teardown
    /\ queuedNow' = <<>>
    /\ UNCHANGED <<consumer, calls, reconnect, connected, running, awaiting_pong, pong_late,
                   queue, connecting, server, attemptsMade, lost, kept, replay>>
    /\ LifeFrame

\* __anext__: StopAsyncIteration when the client is not running and the
\* queue is empty; otherwise `await self._event_queue.get()`, which returns
\* the oldest event or suspends on an empty queue
AnextCall ==
    /\ consumer = "idle"
    /\ IF ~running /\ queue = <<>>
       THEN consumer' = "stopped" /\ queue' = queue
       ELSE IF queue # <<>>
       THEN consumer' = "idle" /\ queue' = Tail(queue)
       ELSE consumer' = "waiting" /\ queue' = queue
    /\ queuedNow' = <<>>
    /\ UNCHANGED <<disc, calls, reconnect, connected, running, ws, awaiting_pong, pong_late,
                   registry, handler, connecting, task, server, attemptsMade, lost, kept, replay>>
    /\ LifeFrame

\* the get() a consumer is suspended in returns once an event is queued
AnextWake ==
    /\ consumer = "waiting"
    /\ queue # <<>>
    /\ consumer' = "idle"
    /\ queue' = Tail(queue)
    /\ queuedNow' = <<>>
    /\ UNCHANGED <<disc, calls, reconnect, connected, running, ws, awaiting_pong, pong_late,
                   registry, handler, connecting, task, server, attemptsMade, lost, kept, replay>>
    /\ LifeFrame

\* the steps of the consumer
ConsumerStep == AnextCall \/ AnextWake

LifeNext ==
    \/ ConnectStart
    \/ \E ok \in BOOLEAN : ConnectFinish(ok)
    \/ LoopTop
    \/ \E frame \in InboundFrames : RecvFrame(frame)
    \/ RecvClosed
    \/ SleepDone
    \/ \E outcome \in HandshakeOutcomes : HandshakeResult(outcome)
    \/ ResubSend
    \/ \E code \in CloseCodes : ServerClose(code)
    \/ TimePasses
    \/ Ping
    \/ Subscribe(BookUpdateSub({"m:ob1"}))
    \/ DisconnectStart
    \/ DisconnectFinish
    \/ AnextCall
    \/ AnextWake

\* C12: when a disconnect() call returns, the first or a later one, the
\* client is not connected and not running, has no socket, no receive
\* task, no replica and an empty registry; and while a call waits for the
\* socket to close it has not yet cancelled the receive task nor cleared
\* replicas or registry.
C12_DisconnectIdempotent ==
    /\ [][disc'.returned > disc.returned =>
            /\ ~connected' /\ ~running'
            /\ ws'.state = "none"
            /\ task'.pc \in {"none", "gone"}
            /\ handler'.orderbooks = {} /\ handler'.user_states = {}
            /\ handler'.price_histories = {}
            /\ registry' = NewSubscriptionManager]_vars
    /\ [][(disc.pc = "idle" /\ disc'.pc = "closing") =>
            /\ ws'.state = "closed"
            /\ task' = task /\ handler' = handler /\ registry' = registry]_vars

\* the client has stopped: a disconnect() call has returned, or the receive
\* task has ended on a rate-limit close or out of reconnect attempts
Stopped ==
    \/ disc.pc = "idle" /\ task.pc = "gone"
    \/ task.pc \in {"done", "gone"} /\ task.end \in {"rate_limited", "exhausted"}

\* C14: once the client has stopped and the queue is drained, the
\* consumer's iteration ends with StopAsyncIteration, whether it asked for
\* the next event before the stop or asks after it.
C14_IterationEnds == (Stopped /\ queue = <<>>) ~> (consumer = "stopped")

\* a disconnect() call on a client that was connected has returned and
\* none is under way
DisconnectReturned == disc.pc = "idle" /\ task.pc = "gone"

\* C24: however disconnect() interleaves with the receive loop, once it has
\* returned the client is not connected and not running and holds no open
\* socket, and from then on no Connected event is queued and no subscribe
\* frame is sent by a replay.
C24_DisconnectWins ==
    /\ [](DisconnectReturned => (~connected /\ ~running /\ ws.state # "open"))
    /\ [][DisconnectReturned =>
            /\ \A i \in 1..Len(queuedNow') : queuedNow'[i].type # "Connected"
            /\ replay' = replay]_vars

\* C27: whenever the receive task has ended, whatever ended it (a 1008
\* close, a loss or a pong timeout with reconnect disabled, exhausted
\* attempts, disconnect), running and connected are both false.
C27_EndedTaskMeansStopped ==
    task.pc \in {"done", "gone"} => (~running /\ ~connected)

(***************************************************************************)
(* SpecReplica: the orderbook replicas of a client across connection       *)
(* losses: book_update frames for one orderbook, the application           *)
(* subscribing and pinging, the server closing sockets, and the receive    *)
(* loop with its reconnects as in SpecConn.                                *)
(***************************************************************************)
\* the book_update frames for m:ob1 that are no resync
ReplicaFrames == {data \in DispatchFrames \ {[timestamp |-> "t1"]} :
                     data.orderbook_id = "m:ob1" /\ ~data.resync}

\* recv() returns a book_update frame: _handle_book_update applies it to
\* the replica and the loop goes round to the head of its while
ReplicaBookUpdate(data) ==
    /\ task.pc = "recv" /\ ws.state = "open"
    /\ LET r == handle_book_update(orderbooks, data)
       IN  /\ orderbooks' = r.orderbooks
           /\ emitted' = r.events
    /\ dispatched' = FrameKind(orderbooks, data)
    /\ task' = [task EXCEPT !.pc = "top"]
    /\ UNCHANGED <<calls, reconnect, connected, running, ws, awaiting_pong, pong_late, registry,
                   handler, queue, connecting, server, queuedNow, attemptsMade, lost, kept,
                   replay>>
    /\ DispatchFrame

ReplicaNext ==
    \/ \E data \in ReplicaFrames : ReplicaBookUpdate(data)
    \/ DispatchSubscribe({"m:ob1"})
    \/ LoopTop
    \/ RecvClosed
    \/ SleepDone
    \/ \E outcome \in HandshakeOutcomes : HandshakeResult(outcome)
    \/ ResubSend
    \/ \E code \in CloseCodes : ServerClose(code)
    \/ TimePasses
    \/ Ping

\* a replica without price levels whose has_snapshot is false
Cleared(b) == ~HoldsLevels(b) /\ ~b.has_snapshot

\* C21: when the receive loop finds the link lost (a close that is no rate
\* limit, or a pong timeout), every replica is left cleared and present and
\* the registry as it was; and as long as the link is lost every replica is
\* cleared.
C21_LossClearsReplicas ==
    /\ [][(~lost /\ lost') =>
            /\ DOMAIN orderbooks' = DOMAIN orderbooks
            /\ \A id \in DOMAIN orderbooks' : Cleared(orderbooks'[id])
            /\ registry' = registry]_vars
    /\ [](lost => \A id \in DOMAIN orderbooks : Cleared(orderbooks[id]))

(***************************************************************************)
(* SpecPong: the pong tracking of one client: connect(), ping() calls,     *)
(* time going by, the server sending frames and closing sockets, and the   *)
(* receive loop with its reconnects as in SpecConn.  While a pong is       *)
(* awaited the ping was sent after _last_pong was set, so pong_timeout     *)
(* cannot have gone by since the ping and not since _last_pong.            *)
(***************************************************************************)
PongFrame ==
    UNCHANGED <<bookVars, runVars, priceVars, userVars, dispatchVars, queueVars, subsVars,
                connectVars, lifeVars, histVars>>

\* ping(): _awaiting_pong is set, the frame handed to _send; the time of
\* the call starts to count
PongPing ==
    /\ awaiting_pong' = TRUE
    /\ ping_late' = FALSE
    /\ queuedNow' = <<>>
    /\ UNCHANGED <<calls, reconnect, connected, running, ws, pong_late, registry, handler,
                   queue, connecting, task, server, attemptsMade, lost, kept, replay>>
    /\ PongFrame

\* time goes by: more than pong_timeout_secs since _last_pong was set, and,
\* when sincePing, more than that since the last ping() as well
PongTimePasses(sincePing) ==
    /\ ~pong_late \/ (sincePing /\ ~ping_late)
    /\ pong_late' = TRUE
    /\ ping_late' = (ping_late \/ sincePing)
    /\ queuedNow' = <<>>
    /\ UNCHANGED <<calls, reconnect, connected, running, ws, awaiting_pong, registry, handler,
                   queue, connecting, task, server, attemptsMade, lost, kept, replay>>
    /\ PongFrame

PongNext ==
    \/ ConnectStart
    \/ \E ok \in BOOLEAN : ConnectFinish(ok)
    \/ LoopTop
    \/ \E frame \in InboundFrames : RecvFrame(frame)
    \/ RecvClosed
    \/ SleepDone
    \/ \E outcome \in HandshakeOutcomes : HandshakeResult(outcome)
    \/ \E code \in CloseCodes : ServerClose(code)
    \/ PongPing
    \/ \E sincePing \in BOOLEAN : PongTimePasses(sincePing)

\* the step queues Error(PingTimeout)
QueuesPingTimeout ==
    \E i \in 1..Len(queuedNow') :
        queuedNow'[i].type = "Error" /\ queuedNow'[i].error = "PingTimeout"

\* C26: the receive loop queues PingTimeout, and drops connected for a
\* pong timeout, only when a pong is awaited and more than
\* pong_timeout_secs have gone by since the ping was sent.
C26_TimeoutCountsFromPing ==
    [][QueuesPingTimeout => (awaiting_pong /\ ping_late /\ ~connected')]_vars

(***************************************************************************)
(* SpecHist: the price histories of one MessageHandler under price_history *)
(* frames (_handle_price_history) and init_price_history calls.  A key is  *)
(* the pair of orderbook id and resolution (PriceHistoryKey).              *)
(***************************************************************************)
HistOrderbookIds == {"m:ob1", "m:ob2"}

\* the data of a price_history frame: snapshots, updates and heartbeats,
\* with and without orderbook id and resolution
HistFrames ==
    [event_type : {"snapshot"}, orderbook_id : HistOrderbookIds \cup {None},
     resolution : {None, "1m"}, include_ohlcv : {Nil}, last_timestamp : {Nil},
     prices : {<<>>, <<[t |-> 100, m |-> "a"]>>}, server_time : {Some(1)}]
    \cup [event_type : {"update"}, orderbook_id : HistOrderbookIds \cup {None},
          resolution : {None, "1m"}, t : {100, 110}, m : {"b"}]
    \cup [event_type : {"heartbeat"}, orderbook_id : {None, "m:ob1"}, resolution : {None},
          server_time : {Some(2), Some(3)}]

\* PriceHistoryKey(orderbook_id, data.resolution or "1m")
HistKey(data) == <<data.orderbook_id, IF Truthy(data.resolution) THEN data.resolution ELSE "1m">>

\* WsEvent.price_update(orderbook_id, resolution)
PriceUpdateEvent(key) == [type |-> "PriceUpdate", orderbook_id |-> key[1], resolution |-> key[2]]

\* _handle_price_history with a heartbeat applied to the histories of the
\* heartbeat's own orderbook id only
handle_price_history_heartbeat_by_id(hs, data) ==
    IF data.event_type = "heartbeat"
    THEN [histories |-> [k \in DOMAIN hs |->
                            IF k[1] = data.orderbook_id THEN ph_apply_heartbeat(hs[k], data)
                            ELSE hs[k]],
          events    |-> <<>>]
    ELSE IF ~Truthy(data.orderbook_id) THEN [histories |-> hs, events |-> <<>>]
    ELSE LET key == HistKey(data)
         IN  [histories |->
                 IF key \in DOMAIN hs
                 THEN [hs EXCEPT ![key] = ph_apply_event(hs[key], data)]
                 ELSE IF data.event_type = "snapshot"
                 THEN [k \in DOMAIN hs \cup {key} |->
                          IF k = key
                          THEN ph_apply_event(NewPriceHistory(key[1], key[2], FALSE), data)
                          ELSE hs[k]]
                 ELSE hs,
              events |-> <<PriceUpdateEvent(key)>>]

\* MessageHandler._handle_price_history on parsed data: a heartbeat goes to
\* every history; a frame without orderbook id is dropped; a snapshot or
\* update goes to the history of its key, which only a snapshot creates
handle_price_history(hs, data) ==
    IF data.event_type = "heartbeat"
    THEN [histories |-> [k \in DOMAIN hs |-> ph_apply_heartbeat(hs[k], data)],
          events    |-> <<>>]
    ELSE IF ~Truthy(data.orderbook_id) THEN [histories |-> hs, events |-> <<>>]
    ELSE LET key == HistKey(data)
         IN  [histories |->
                 IF key \in DOMAIN hs
                 THEN [hs EXCEPT ![key] = ph_apply_event(hs[key], data)]
                 ELSE IF data.event_type = "snapshot"
                 THEN [k \in DOMAIN hs \cup {key} |->
                          IF k = key
                          THEN ph_apply_event(NewPriceHistory(key[1], key[2], FALSE), data)
                          ELSE hs[k]]
                 ELSE hs,
              events |-> <<PriceUpdateEvent(key)>>]

\* MessageHandler.init_price_history
init_price_history(hs, orderbook_id, resolution, include_ohlcv) ==
    LET key == <<orderbook_id, resolution>>
    IN  IF key \in DOMAIN hs THEN hs
        ELSE [k \in DOMAIN hs \cup {key} |->
                 IF k = key THEN NewPriceHistory(orderbook_id, resolution, include_ohlcv)
                 ELSE hs[k]]

\* history: what a frame is to the histories it arrives at
HistKind(hs, data) ==
    IF data.event_type = "heartbeat" THEN "heartbeat"
    ELSE IF ~Truthy(data.orderbook_id) THEN "no_id"
    ELSE IF HistKey(data) \in DOMAIN hs THEN data.event_type
    ELSE IF data.event_type = "snapshot" THEN "snapshot_creates"
    ELSE "update_untracked"

HistFrame ==
    UNCHANGED <<bookVars, runVars, priceVars, userVars, connVars, dispatchVars, queueVars,
                subsVars, connectVars, lifeVars, pongVars>>

\* the receive loop hands a price_history frame to the handler
HistPriceHistory(data) ==
    /\ histories' = handle_price_history(histories, data).histories
    /\ histOp' = HistKind(histories, data)
    /\ HistFrame

\* subscribe_price_history(orderbook_id, "1m"): the handler starts to track
\* the key
HistSubscribe(orderbook_id) ==
    /\ histories' = init_price_history(histories, orderbook_id, "1m", FALSE)
    /\ histOp' = "subscribe"
    /\ HistFrame

HistNext ==
    \/ \E data \in HistFrames : HistPriceHistory(data)
    \/ \E orderbook_id \in HistOrderbookIds : HistSubscribe(orderbook_id)

\* C23: whatever histories the handler tracks, a heartbeat sets server_time
\* on each of them, whatever orderbook id it carries, and changes nothing
\* else, the set of tracked keys included; a snapshot or update changes at
\* most the history of its own key; and an untracked key is tracked after
\* a snapshot and after no update.
C23_HeartbeatAndRouting ==
    \A data \in HistFrames :
        LET r    == handle_price_history(histories, data).histories
            kind == HistKind(histories, data)
        IN  /\ kind = "heartbeat" =>
                  /\ DOMAIN r = DOMAIN histories
                  /\ \A k \in DOMAIN r :
                        r[k] = [histories[k] EXCEPT !.server_time = data.server_time]
            /\ kind = "no_id" => r = histories
            /\ kind \in {"snapshot", "update", "snapshot_creates", "update_untracked"} =>
                  /\ DOMAIN r \subseteq DOMAIN histories \cup {HistKey(data)}
                  /\ \A k \in DOMAIN histories \ {HistKey(data)} : r[k] = histories[k]
            /\ kind = "snapshot_creates" => HistKey(data) \in DOMAIN r
            /\ kind = "update_untracked" => r = histories

\* a heartbeat naming m:ob1 has just set server_time on the histories of
\* both orderbooks, each of which keeps its candle
C23_Witness ==
    /\ histOp = "heartbeat"
    /\ DOMAIN histories = {<<"m:ob1", "1m">>, <<"m:ob2", "1m">>}
    /\ \A k \in DOMAIN histories :
          /\ histories[k].server_time = Some(3)
          /\ histories[k].candles # <<>>
          /\ histories[k].has_snapshot

(***************************************************************************)
(* The specifications.  Each one starts every object freshly constructed   *)
(* and takes the steps of one part of the SDK.                             *)
(***************************************************************************)
InitBook ==
    /\ BookInit /\ RunIdle /\ PriceInit /\ UserInit /\ ConnConstructed(TRUE)
    /\ DispatchIdle /\ QueueIdle /\ SubsIdle /\ ConnectIdle /\ LifeIdle /\ PongIdle /\ HistIdle

SpecBook == InitBook /\ [][BookNext]_vars

InitRun ==
    /\ RunInit /\ BookInit /\ PriceInit /\ UserInit /\ ConnConstructed(TRUE)
    /\ DispatchIdle /\ QueueIdle /\ SubsIdle /\ ConnectIdle /\ LifeIdle /\ PongIdle /\ HistIdle

SpecRun == InitRun /\ [][RunNext]_vars

InitPrice ==
    /\ PriceInit /\ BookInit /\ RunIdle /\ UserInit /\ ConnConstructed(TRUE)
    /\ DispatchIdle /\ QueueIdle /\ SubsIdle /\ ConnectIdle /\ LifeIdle /\ PongIdle /\ HistIdle

SpecPrice == InitPrice /\ [][PriceNext]_vars

InitUser ==
    /\ UserInit /\ BookInit /\ RunIdle /\ PriceInit /\ ConnConstructed(TRUE)
    /\ DispatchIdle /\ QueueIdle /\ SubsIdle /\ ConnectIdle /\ LifeIdle /\ PongIdle /\ HistIdle

SpecUser == InitUser /\ [][UserNext]_vars

InitConn ==
    /\ \E r \in BOOLEAN : ConnConstructed(r)
    /\ BookInit /\ RunIdle /\ PriceInit /\ UserInit
    /\ DispatchIdle /\ QueueIdle /\ SubsIdle /\ ConnectIdle /\ LifeIdle /\ PongIdle /\ HistIdle

SpecConn == InitConn /\ [][ConnNext]_vars /\ WF_vars(LoopStep)

InitDispatch ==
    /\ DispatchInit /\ BookInit /\ RunIdle /\ PriceInit /\ UserInit
    /\ QueueIdle /\ SubsIdle /\ ConnectIdle /\ LifeIdle /\ PongIdle /\ HistIdle

SpecDispatch == InitDispatch /\ [][DispatchNext]_vars

InitQueue ==
    /\ QueueIdle /\ ConnConstructed(TRUE)
    /\ BookInit /\ RunIdle /\ PriceInit /\ UserInit
    /\ DispatchIdle /\ SubsIdle /\ ConnectIdle /\ LifeIdle /\ PongIdle /\ HistIdle

SpecQueue == InitQueue /\ [][QueueNext]_vars

InitSubs ==
    /\ SubsIdle /\ DispatchInit
    /\ BookInit /\ RunIdle /\ PriceInit /\ UserInit
    /\ QueueIdle /\ ConnectIdle /\ LifeIdle /\ PongIdle /\ HistIdle

SpecSubs == InitSubs /\ [][SubsNext]_vars

InitConnect ==
    /\ ConnectIdle /\ ConnConstructed(TRUE)
    /\ BookInit /\ RunIdle /\ PriceInit /\ UserInit
    /\ DispatchIdle /\ QueueIdle /\ SubsIdle /\ LifeIdle /\ PongIdle /\ HistIdle

SpecConnect == InitConnect /\ [][ConnectNext]_vars

InitLife ==
    /\ LifeIdle /\ PongIdle /\ HistIdle /\ (\E r \in BOOLEAN : ConnConstructed(r))
    /\ BookInit /\ RunIdle /\ PriceInit /\ UserInit
    /\ DispatchIdle /\ QueueIdle /\ SubsIdle /\ ConnectIdle

SpecLife ==
    /\ InitLife /\ [][LifeNext]_vars
    /\ WF_vars(LoopStep) /\ WF_vars(ConsumerStep) /\ WF_vars(DisconnectFinish)

InitReplica ==
    /\ DispatchInit /\ LifeIdle /\ PongIdle /\ HistIdle
    /\ BookInit /\ RunIdle /\ PriceInit /\ UserInit
    /\ QueueIdle /\ SubsIdle /\ ConnectIdle

SpecReplica == InitReplica /\ [][ReplicaNext]_vars /\ WF_vars(LoopStep)

InitCandles ==
    /\ PriceInit /\ BookInit /\ RunIdle /\ UserInit
    /\ (\E r \in BOOLEAN : ConnConstructed(r))
    /\ DispatchIdle /\ QueueIdle /\ SubsIdle /\ ConnectIdle /\ LifeIdle /\ PongIdle /\ HistIdle

SpecCandles == InitCandles /\ [][CandlesNext]_vars

InitPong ==
    /\ PongIdle /\ (\E r \in BOOLEAN : ConnConstructed(r))
    /\ BookInit /\ RunIdle /\ PriceInit /\ UserInit
    /\ DispatchIdle /\ QueueIdle /\ SubsIdle /\ ConnectIdle /\ LifeIdle /\ HistIdle

SpecPong == InitPong /\ [][PongNext]_vars /\ WF_vars(LoopStep)

InitHist ==
    /\ HistIdle /\ ConnConstructed(TRUE)
    /\ BookInit /\ RunIdle /\ PriceInit /\ UserInit
    /\ DispatchIdle /\ QueueIdle /\ SubsIdle /\ ConnectIdle /\ LifeIdle /\ PongIdle

SpecHist == InitHist /\ [][HistNext]_vars

====
